---- MODULE Spec2Model ----
(***************************************************************************)
(* Model of the YouTube AI Article Generator extension: the per-tab state  *)
(* store (TabManager, popup side, and the simplified tab manager of the    *)
(* background service worker, both over chrome.storage.local) and the      *)
(* retrying request primitive of the Anthropic API client.                 *)
(***************************************************************************)
EXTENDS Integers, Sequences, FiniteSets, TLC

\* ------------------------------------------------------------------ bounds
\* Date.now() is modelled by a clock that runs from 0 to MaxTime.
MaxTime == 1

\* The popup handlers wrap makeRequest at most MaxWrap times before the popup
\* page is closed.
MaxWrap == 2
\* The most elements the transcript panel of a page holds.
MaxItems == 3
\* The most caption elements, and the most generic elements, of a page.
MaxFallback == 2
\* The most clock steps by which a timer fires late.
MaxLate == 1
\* The most calls of one kind the popup awaits at a time.
MaxFlights == 2

\* ------------------------------------------------------------ value domains
\* JavaScript null in a nullable string-valued field.
Null == "null"

\* Two 11-character video ids.
VideoIds == {"dQw4w9WgXcQ", "9bZkp7q19f0"}

MiB == 1024 * 1024

\* TabManager.maxStorageSize.
maxStorageSize == 8 * 1024 * 1024

\* Length of JSON.stringify of a content value (a transcript object, a
\* key-points string, an article string, an error or step string, or null).
JsonLen(v) ==
  CASE v = Null -> 4
    [] v = "T3" -> 3 * MiB
    [] v = "T5" -> 5 * MiB
    [] v = "T9" -> 9 * MiB
    [] OTHER -> Len(v) + 2

\* ------------------------------------------------------------------- URLs
\* A URL is a sequence of tokens; a regular expression of extractVideoId is a
\* literal (a sequence of tokens that must occur contiguously) followed by
\* the capture group [a-zA-Z0-9_-]{11}.
EmptyUrl == <<>>

WatchUrl(id) == <<"https://www.", "youtube.com/watch?", "v=", id>>
WatchUrlWithParams(id) == <<"https://www.", "youtube.com/watch?", "v=", id, "&t=30s">>
WatchUrlParamFirst(id) == <<"https://www.", "youtube.com/watch?", "t=30s&", "v=", id>>
ShortUrl(id) == <<"https://", "youtu.be/", id>>
EmbedUrl(id) == <<"https://www.", "youtube.com/embed/", id>>
VUrl(id) == <<"https://www.", "youtube.com/v/", id>>

\* The capture group matches a token of 11 id characters.
IsIdToken(tok) == Len(tok) = 11

\* The literals of the four patterns, in the order the code tries them.
patterns ==
  << <<"youtube.com/watch?", "v=">>,
     <<"youtu.be/">>,
     <<"youtube.com/embed/">>,
     <<"youtube.com/v/">> >>

\* The positions of url at which literal lit, followed by an id, matches.
MatchPositions(url, lit) ==
  { i \in 1..Len(url) :
      /\ i + Len(lit) <= Len(url)
      /\ \A k \in 1..Len(lit) : url[i + k - 1] = lit[k]
      /\ IsIdToken(url[i + Len(lit)]) }

Min(S) == CHOOSE x \in S : \A y \in S : x <= y

\* url.match(pattern)[1]: the id captured at the leftmost match, or Null.
MatchPattern(url, lit) ==
  IF MatchPositions(url, lit) = {} THEN Null
  ELSE url[Min(MatchPositions(url, lit)) + Len(lit)]

\* extractVideoId: the first pattern that matches decides.
RECURSIVE ExtractFrom(_, _)
ExtractFrom(url, k) ==
  IF k > Len(patterns) THEN Null
  ELSE IF MatchPattern(url, patterns[k]) # Null THEN MatchPattern(url, patterns[k])
  ELSE ExtractFrom(url, k + 1)

extractVideoId(url) == IF url = EmptyUrl THEN Null ELSE ExtractFrom(url, 1)

normalizeYouTubeUrl(url) ==
  IF extractVideoId(url) # Null THEN WatchUrl(extractVideoId(url)) ELSE url

\* TabManager.isSameYouTubeVideo (falls back to string equality).
isSameYouTubeVideo(url1, url2) ==
  IF url1 = EmptyUrl \/ url2 = EmptyUrl THEN FALSE
  ELSE IF extractVideoId(url1) # Null /\ extractVideoId(url2) # Null
       THEN extractVideoId(url1) = extractVideoId(url2)
       ELSE url1 = url2

\* The background worker's isSameYouTubeVideo (no fallback).
bgIsSameYouTubeVideo(url1, url2) ==
  IF url1 = EmptyUrl \/ url2 = EmptyUrl THEN FALSE
  ELSE /\ extractVideoId(url1) # Null
       /\ extractVideoId(url2) # Null
       /\ extractVideoId(url1) = extractVideoId(url2)

\* url.includes('youtube.com/watch') || url.includes('youtu.be/')
isYouTubeUrl(url) ==
  \E i \in 1..Len(url) : url[i] \in {"youtube.com/watch?", "youtu.be/"}

RECURSIVE UrlLen(_)
UrlLen(url) == IF url = <<>> THEN 0 ELSE Len(Head(url)) + UrlLen(Tail(url))

\* An empty state that carries no tab id.
createEmptyTabState_NoId(tabId, t) ==
  [tabId |-> 0, url |-> EmptyUrl, title |-> "", transcript |-> Null,
   keyPoints |-> Null, article |-> Null, isProcessing |-> FALSE,
   processingStep |-> Null, error |-> Null, lastUpdated |-> t]

\* ------------------------------------------------------------- tab states
\* The fields of a stored tab state.
createEmptyTabState(tabId, t) ==
  [ tabId |-> tabId, url |-> EmptyUrl, title |-> "",
    transcript |-> Null, keyPoints |-> Null, article |-> Null,
    isProcessing |-> FALSE, processingStep |-> Null, error |-> Null,
    lastUpdated |-> t ]

\* {...state, ...updates}: the fields of updates overwrite those of state.
Merge(state, updates) ==
  [ f \in (DOMAIN state) \cup (DOMAIN updates) |->
      IF f \in DOMAIN updates THEN updates[f] ELSE state[f] ]

\* Characters of JSON.stringify(state) that do not depend on the state's
\* strings: keys, punctuation, a one-digit tabId, false, two timestamps.
EntryFixedLen == 167

\* JSON.stringify(state).length
EntryJsonLen(state) ==
  EntryFixedLen + (UrlLen(state.url) + 2) + (Len(state.title) + 2)
    + JsonLen(state.transcript) + JsonLen(state.keyPoints) + JsonLen(state.article)
    + JsonLen(state.processingStep) + JsonLen(state.error)

RECURSIVE SumJsonLen(_, _)
SumJsonLen(tabs, ids) ==
  IF ids = {} THEN 0
  ELSE LET id == CHOOSE x \in ids : TRUE
       IN  4 + EntryJsonLen(tabs[id]) + 1 + SumJsonLen(tabs, ids \ {id})

\* JSON.stringify(allTabs).length: braces, and per entry its quoted key, a
\* colon, the entry and a comma (one comma less than entries).
StoreJsonLen(tabs) ==
  IF DOMAIN tabs = {} THEN 2 ELSE 2 + SumJsonLen(tabs, DOMAIN tabs) - 1

\* delete allTabs[id]
Without(tabs, id) == [ k \in (DOMAIN tabs) \ {id} |-> tabs[k] ]

\* allTabs[id] = state
With(tabs, id, state) ==
  [ k \in (DOMAIN tabs) \cup {id} |-> IF k = id THEN state ELSE tabs[k] ]

\* getAllTabs: the stored map, or {} when chrome.storage.local.get throws.
getAllTabs(tabs, readFails) == IF readFails THEN << >> ELSE tabs

\* allTabs[tabId] || createEmptyTabState(tabId)
StateOf(tabs, tabId, t) ==
  IF tabId \in DOMAIN tabs THEN tabs[tabId] ELSE createEmptyTabState(tabId, t)

\* ---------------------------------------------------- ensureStorageCapacity
\* A sort that puts the most recently updated tab first.
EvictsBefore_NewestFirst(tabs, a, b) ==
  \/ tabs[a].lastUpdated > tabs[b].lastUpdated
  \/ tabs[a].lastUpdated = tabs[b].lastUpdated /\ a > b

\* a sorts before b: ascending lastUpdated; the sort is stable and
\* Object.entries lists integer keys in ascending order.
EvictsBefore(tabs, a, b) ==
  \/ tabs[a].lastUpdated < tabs[b].lastUpdated
  \/ tabs[a].lastUpdated = tabs[b].lastUpdated /\ a < b

\* tabArray: the ids of tabs in the order the sort leaves them.
RECURSIVE SortedIds(_, _)
SortedIds(tabs, ids) ==
  IF ids = {} THEN <<>>
  ELSE LET first == CHOOSE a \in ids : \A b \in ids \ {a} : EvictsBefore(tabs, a, b)
       IN  <<first>> \o SortedIds(tabs, ids \ {first})

\* The while loop: shift the oldest tab and delete it while over the limit.
RECURSIVE EvictLoop(_, _)
EvictLoop(tabs, tabArray) ==
  IF StoreJsonLen(tabs) > maxStorageSize /\ tabArray # <<>>
  THEN EvictLoop(Without(tabs, Head(tabArray)), Tail(tabArray))
  ELSE tabs

ensureStorageCapacity(allTabs) ==
  IF StoreJsonLen(allTabs) > maxStorageSize
  THEN EvictLoop(allTabs, SortedIds(allTabs, DOMAIN allTabs))
  ELSE allTabs

\* ------------------------------------------------- TabManager (popup side)
\* A save that writes the saved tab alone, dropping the map it read.
SaveCandidate_Alone(allTabs, tabId, tabState, t) ==
  With(<<>>, tabId, Merge(tabState, [tabId |-> tabId, lastUpdated |-> t]))

\* The tab map of saveTabState before ensureStorageCapacity runs on it.
SaveCandidate(allTabs, tabId, tabState, t) ==
  With(allTabs, tabId, Merge(tabState, [tabId |-> tabId, lastUpdated |-> t]))

\* saveTabState from the tab map it read: the map it writes to storage.
saveTabState(allTabs, tabId, tabState, t) ==
  ensureStorageCapacity(SaveCandidate(allTabs, tabId, tabState, t))

\* newState of updateTabState: the current state with the updates merged in.
UpdatedState(tabs, tabId, updates, t) ==
  Merge(Merge(StateOf(tabs, tabId, t), updates), [lastUpdated |-> t])

\* title || 'YouTube Video'
TitleOr(title) == IF title = "" THEN "YouTube Video" ELSE title

\* The fresh state initializeTab saves for a new tab or a different video.
FreshState(tabId, url, title, t) ==
  Merge(createEmptyTabState(tabId, t),
        [url |-> normalizeYouTubeUrl(url), title |-> TitleOr(title)])

\* title || existingState.title || 'YouTube Video'
UpdatedTitle(existing, title) ==
  IF title # "" THEN title ELSE TitleOr(existing.title)

\* The branch initializeTab takes for the state it read.
InitBranch(existingState, url, title) ==
  IF existingState.url = EmptyUrl THEN "first time"
  ELSE IF isSameYouTubeVideo(existingState.url, url)
  THEN IF existingState.url # normalizeYouTubeUrl(url)
          \/ existingState.title # UpdatedTitle(existingState, title)
       THEN "same video, update"
       ELSE "same video, no change"
  ELSE "different video"

\* The state initializeTab passes to saveTabState (in every branch but
\* "same video, no change", which writes nothing).
InitState(tabs, tabId, url, title, t) ==
  IF InitBranch(StateOf(tabs, tabId, t), url, title) = "same video, update"
  THEN UpdatedState(tabs, tabId,
         [url |-> normalizeYouTubeUrl(url),
          title |-> UpdatedTitle(StateOf(tabs, tabId, t), title)], t)
  ELSE FreshState(tabId, url, title, t)

\* A setProcessingStatus that leaves the error as it is.
ProcessingUpdates_KeepError(isProcessing, step) ==
  [isProcessing |-> isProcessing, processingStep |-> step]

\* The updates setProcessingStatus passes to updateTabState.
ProcessingUpdates(isProcessing, step) ==
  [isProcessing |-> isProcessing, processingStep |-> step, error |-> Null]

\* The updates setError passes to updateTabState.
ErrorUpdates(error) ==
  [isProcessing |-> FALSE, processingStep |-> Null, error |-> error]

removeTab(tabs, tabId) == Without(tabs, tabId)

\* ------------------------------------------ TabManager on a failing storage
\* The end of a call is a record: it threw or returned, ok is the boolean it
\* returned, state the state it returned and tabs the stored map it left.

\* chrome.storage.local.set({youtubeTabs: newTabs}): it throws (quota
\* exceeded) and leaves the map, or writes.
StorageSet(tabs, newTabs, writeFails) ==
  IF writeFails THEN [threw |-> TRUE, tabs |-> tabs]
                ELSE [threw |-> FALSE, tabs |-> newTabs]

\* A try block without catch.
ReturnTrueOrFalse_Rethrows(attempt, state) ==
  [threw |-> attempt.threw, ok |-> ~attempt.threw, state |-> state,
   tabs |-> attempt.tabs]

\* try { ...; return true } catch (error) { return false }
ReturnTrueOrFalse(attempt, state) ==
  [threw |-> FALSE, ok |-> ~attempt.threw, state |-> state, tabs |-> attempt.tabs]

\* getTabState(tabId) with a read that may throw inside getAllTabs.
getTabStateCall(tabs, tabId, t, fails) ==
  [threw |-> FALSE, ok |-> TRUE, tabs |-> tabs,
   state |-> StateOf(getAllTabs(tabs, fails.read1), tabId, t)]

\* saveTabState(tabId, tabState): readFails is the failure of its read.
saveTabStateCall(tabs, tabId, tabState, t, readFails, writeFails) ==
  ReturnTrueOrFalse(
    StorageSet(tabs, saveTabState(getAllTabs(tabs, readFails), tabId, tabState, t),
               writeFails),
    tabState)

\* updateTabState(tabId, updates): the read of getTabState, then the read
\* and the write of saveTabState.
updateTabStateCall(tabs, tabId, updates, t, readFails, saveReadFails, writeFails) ==
  saveTabStateCall(tabs, tabId,
                   UpdatedState(getAllTabs(tabs, readFails), tabId, updates, t),
                   t, saveReadFails, writeFails)

\* removeTab(tabId)
removeTabCall(tabs, tabId, t, fails) ==
  ReturnTrueOrFalse(
    StorageSet(tabs, removeTab(getAllTabs(tabs, fails.read1), tabId), fails.write),
    createEmptyTabState(tabId, t))

\* initializeTab(tabId, url, title): it returns the state it built or found,
\* whatever saveTabState or updateTabState returned.
initializeTabCall(tabs, tabId, url, title, t, fails) ==
  LET existingState == StateOf(getAllTabs(tabs, fails.read1), tabId, t)
      branch == InitBranch(existingState, url, title)
      newState == FreshState(tabId, url, title, t)
      changes == [url |-> normalizeYouTubeUrl(url),
                  title |-> UpdatedTitle(existingState, title)]
      updated == updateTabStateCall(tabs, tabId, changes, t,
                                    fails.read2, fails.read3, fails.write)
      saved == saveTabStateCall(tabs, tabId, newState, t, fails.read2, fails.write)
  IN  IF branch = "same video, no change"
      THEN [threw |-> FALSE, ok |-> TRUE, state |-> existingState, tabs |-> tabs]
      ELSE IF branch = "same video, update"
      THEN [updated EXCEPT !.state = Merge(existingState, changes)]
      ELSE [saved EXCEPT !.state = newState]

\* No call has been made.
NoCall ==
  [op |-> "none", tab |-> 0, url |-> EmptyUrl, threw |-> FALSE, ok |-> TRUE,
   state |-> createEmptyTabState(0, 0),
   fails |-> [read1 |-> FALSE, read2 |-> FALSE, read3 |-> FALSE, write |-> FALSE]]

\* ------------------------------- handleExtractTranscript and its repair
\* The methods class TabManager defines.
TabManagerMethods ==
  {"getAllTabs", "getTabState", "saveTabState", "updateTabState", "removeTab",
   "getYouTubeTabs", "getProcessingStatus", "createEmptyTabState", "isYouTubeUrl",
   "extractVideoId", "normalizeYouTubeUrl", "isSameYouTubeVideo", "initializeTab",
   "setProcessingStatus", "setError", "cleanupOldTabs", "ensureStorageCapacity",
   "getCurrentYouTubeTab", "exportAllTabs", "importTabs", "getStorageStats"}

\* What the content script answers to EXTRACT_TRANSCRIPT, or that
\* chrome.tabs.sendMessage throws.
ExtractAnswers == {"segments", "empty", "silent"}

\* handleExtractTranscript is not running.
NoExtraction ==
  [pc |-> "idle", tab |-> 0, silent |-> FALSE, initSuccess |-> FALSE,
   verified |-> FALSE, retryAnswer |-> "none", retried |-> FALSE]

\* The block that follows a thrown sendMessage, once GET_STATUS was answered
\* 'active': initSuccess is initResult?.success, verified whether
\* GET_STORED_TRANSCRIPT is answered and retryAnswer the answer to the second
\* EXTRACT_TRANSCRIPT. It gives the response of the retry, or "threw".
AutoFixResponse(initSuccess, verified, retryAnswer) ==
  IF ~initSuccess THEN [retried |-> FALSE, response |-> "threw"]
  ELSE IF "clearError" \notin TabManagerMethods
  THEN [retried |-> FALSE, response |-> "threw"]
  ELSE IF ~verified THEN [retried |-> FALSE, response |-> "threw"]
  ELSE [retried |-> TRUE,
        response |-> IF retryAnswer = "silent" THEN "threw" ELSE retryAnswer]

\* The state handleExtractTranscript saves for a response.
ExtractionSaved(tabs, tabId, response, t) ==
  IF response = "segments"
  THEN UpdatedState(tabs, tabId,
         [transcript |-> "segments", isProcessing |-> FALSE, processingStep |-> Null], t)
  ELSE IF response = "empty"
  THEN UpdatedState(tabs, tabId, ProcessingUpdates(FALSE, Null), t)
  ELSE UpdatedState(tabs, tabId, ErrorUpdates("failed"), t)

ExtractionOp(response) ==
  IF response = "segments" THEN "updateTabState"
  ELSE IF response = "empty" THEN "setProcessingStatus"
  ELSE "setError"

\* ------------------------------------------------------------ cleanupOldTabs
\* Milliseconds of an hour.
HourMs == 60 * 60 * 1000

\* TabManager.tabCleanupHours.
tabCleanupHours == 24

\* Date.now() - tabCleanupHours * 60 * 60 * 1000
cutoffTime(t) == t - tabCleanupHours * HourMs

\* isOld
IsOld(tabState, t) == tabState.lastUpdated < cutoffTime(t)

\* A very-old test that counts seven days from the time of the call.
IsVeryOld_SevenDays(tabState, t) == tabState.lastUpdated < t - 7 * 24 * HourMs

\* (tabState.lastUpdated || 0) < cutoffTime - (7 * 24 * 60 * 60 * 1000)
IsVeryOld(tabState, t) == tabState.lastUpdated < cutoffTime(t) - 7 * 24 * HourMs

\* The ids cleanupOldTabs deletes, given the ids of the open tabs.
CleanedUp(allTabs, activeTabIds, t) ==
  { tabId \in DOMAIN allTabs :
      \/ tabId \notin activeTabIds /\ IsOld(allTabs[tabId], t)
      \/ IsVeryOld(allTabs[tabId], t) }

\* The map cleanupOldTabs leaves in storage.
cleanupOldTabs(allTabs, activeTabIds, t) ==
  [ tabId \in (DOMAIN allTabs) \ CleanedUp(allTabs, activeTabIds, t) |-> allTabs[tabId] ]

\* --------------------------------------------- background service worker
\* updateTabInfo on storage content tabs at time t: the written map.
updateTabInfo(tabs, tabId, url, title, t) ==
  IF tabId \notin DOMAIN tabs
  THEN With(tabs, tabId,
            Merge(createEmptyTabState(tabId, t),
                  [url |-> normalizeYouTubeUrl(url), title |-> TitleOr(title)]))
  ELSE IF bgIsSameYouTubeVideo(tabs[tabId].url, url)
  THEN With(tabs, tabId,
            Merge(tabs[tabId],
                  [url |-> normalizeYouTubeUrl(url),
                   title |-> IF title # "" THEN title ELSE tabs[tabId].title,
                   lastUpdated |-> t]))
  ELSE \* "Different video detected, preserving existing data anyway"
       With(tabs, tabId,
            Merge(tabs[tabId],
                  [url |-> normalizeYouTubeUrl(url),
                   title |-> IF title # "" THEN title ELSE tabs[tabId].title,
                   lastUpdated |-> t]))

\* The UPDATE_TAB_STATE message handler: the written map.
bgUpdateTabState(tabs, tabId, updates, t) ==
  With(tabs, tabId, Merge(Merge(tabs[tabId], updates), [lastUpdated |-> t]))

\* ------------------------------------------------- transcript extraction
\* A text is a sequence of chunks; the chunk " " is white space. An element
\* of the transcript panel has a timestamp child (time, or NoChild when it
\* has none) and a text child; caption and generic elements are texts.
NoChild == <<"no such child">>

RECURSIVE TrimLeft(_)
TrimLeft(text) ==
  IF text # << >> /\ Head(text) = " " THEN TrimLeft(Tail(text)) ELSE text

RECURSIVE TrimRight(_)
TrimRight(text) ==
  IF text # << >> /\ text[Len(text)] = " "
  THEN TrimRight(SubSeq(text, 1, Len(text) - 1))
  ELSE text

\* textContent.trim()
Trim(text) == TrimRight(TrimLeft(text))

\* text.length
RECURSIVE TextLen(_)
TextLen(text) == IF text = << >> THEN 0 ELSE Len(Head(text)) + TextLen(Tail(text))

\* A loop that puts each accepted segment in front of the earlier ones.
RECURSIVE SyncFrom_Reversed(_, _)
SyncFrom_Reversed(items, index) ==
  IF index >= Len(items) THEN << >>
  ELSE LET item == items[index + 1]
           timestamp == IF item.time # NoChild THEN Trim(item.time)
                                               ELSE <<ToString(index)>>
           text == IF item.text # NoChild THEN Trim(item.text) ELSE << >>
       IN  IF text = << >> \/ TextLen(text) < 3
           THEN SyncFrom_Reversed(items, index + 1)
           ELSE Append(SyncFrom_Reversed(items, index + 1),
                       [timestamp |-> timestamp, text |-> text])

\* The forEach of extractTranscriptSync from the item at index (0-based).
RECURSIVE SyncFrom(_, _)
SyncFrom(items, index) ==
  IF index >= Len(items) THEN << >>
  ELSE LET item == items[index + 1]
           timestamp == IF item.time # NoChild THEN Trim(item.time)
                                               ELSE <<ToString(index)>>
           text == IF item.text # NoChild THEN Trim(item.text) ELSE << >>
       IN  IF text = << >> \/ TextLen(text) < 3
           THEN SyncFrom(items, index + 1)
           ELSE <<[timestamp |-> timestamp, text |-> text]>>
                  \o SyncFrom(items, index + 1)

extractTranscriptSync(transcriptItems) == SyncFrom(transcriptItems, 0)

\* text && text.length >= 3
AcceptsCaption(text) == text # << >> /\ TextLen(text) >= 3

\* A generic test that accepts ten characters.
AcceptsGeneral_TenOrMore(text) == text # << >> /\ TextLen(text) >= 10

\* text && text.length > 10
AcceptsGeneral(text) == text # << >> /\ TextLen(text) > 10

\* The forEach over caption elements from the element at index.
RECURSIVE CaptionsFrom(_, _)
CaptionsFrom(elements, index) ==
  IF index >= Len(elements) THEN << >>
  ELSE LET text == Trim(elements[index + 1])
       IN  IF AcceptsCaption(text)
           THEN <<[timestamp |-> <<ToString(index)>>, text |-> text]>>
                  \o CaptionsFrom(elements, index + 1)
           ELSE CaptionsFrom(elements, index + 1)

\* The forEach over generic elements from the element at index.
RECURSIVE GeneralFrom(_, _)
GeneralFrom(elements, index) ==
  IF index >= Len(elements) THEN << >>
  ELSE LET text == Trim(elements[index + 1])
       IN  IF AcceptsGeneral(text)
           THEN <<[timestamp |-> <<ToString(index)>>, text |-> text]>>
                  \o GeneralFrom(elements, index + 1)
           ELSE GeneralFrom(elements, index + 1)

\* What a function call comes to: it returned segments found by a method,
\* it threw, or its promise never settles.
Returned(method, segments) == [kind |-> "returned", method |-> method, segments |-> segments]
Raised == [kind |-> "raised", method |-> "none", segments |-> << >>]
Pending == [kind |-> "pending", method |-> "none", segments |-> << >>]

\* extractTranscriptFallback: captions, then generic elements; a query that
\* throws ends the function.
extractTranscriptFallback(dom) ==
  IF dom.throwsAt = "captions" THEN Raised
  ELSE IF CaptionsFrom(dom.captions, 0) # << >>
  THEN Returned("captions", CaptionsFrom(dom.captions, 0))
  ELSE IF dom.throwsAt = "general" THEN Raised
  ELSE Returned("general", GeneralFrom(dom.general, 0))

\* extractTranscript. Inside the promise that waits for the opened panel an
\* exception rejects the async executor only, so the promise stays pending.
extractTranscript(dom) ==
  IF ~dom.onYouTube THEN Returned("none", << >>)
  ELSE IF dom.throwsAt = "panel" THEN Raised
  ELSE IF dom.panel # << >>
  THEN Returned("panel", extractTranscriptSync(dom.panel))
  ELSE IF dom.trigger
  THEN IF dom.loaded # << >>
       THEN Returned("panel", extractTranscriptSync(dom.loaded))
       ELSE IF extractTranscriptFallback(dom).kind = "raised"
            THEN Pending
            ELSE extractTranscriptFallback(dom)
  ELSE extractTranscriptFallback(dom)

\* The null transcript.
NullTranscript == [null |-> TRUE, segments |-> << >>]

\* logTranscript: the transcript when it has segments, null when it is empty.
logTranscript(transcript) ==
  IF transcript # << >> THEN [null |-> FALSE, segments |-> transcript]
                        ELSE NullTranscript

\* A listener that reports an error when no transcript was found.
ListenerResponse_ErrorWhenEmpty(outcome) ==
  IF outcome.kind = "returned" /\ outcome.segments # << >>
  THEN [sent |-> TRUE, transcript |-> logTranscript(outcome.segments), error |-> Null]
  ELSE [sent |-> TRUE, transcript |-> NullTranscript, error |-> "No transcript found"]

\* The EXTRACT_TRANSCRIPT listener: it answers with what logTranscript
\* returns, or with null and the message of the error thrown; nothing is
\* sent while the extraction is pending.
ListenerResponse(outcome) ==
  IF outcome.kind = "pending"
  THEN [sent |-> FALSE, transcript |-> NullTranscript, error |-> Null]
  ELSE IF outcome.kind = "raised"
  THEN [sent |-> TRUE, transcript |-> NullTranscript, error |-> "query failed"]
  ELSE [sent |-> TRUE, transcript |-> logTranscript(outcome.segments), error |-> Null]

\* ------------------------------------------------ waitForTranscriptPanel
maxWaitTime == 5000
checkInterval == 200

\* The grain of the page's clock: half a poll interval.
ClockStep == checkInterval \div 2

\* No waitForTranscriptPanel call has been made.
NotWaiting ==
  [pc |-> "idle", startTime |-> 0, due |-> 0, timers |-> 0, polls |-> 0,
   resolutions |-> 0, value |-> "none", resolvedAt |-> 0, found |-> FALSE,
   then |-> "none"]

\* A timeout test that is passed as soon as any time has gone by.
TimedOut_AtOnce(startTime, t) == t - startTime > 0

\* Date.now() - startTime > maxWaitTime
TimedOut(startTime, t) == t - startTime > maxWaitTime

\* resolve(value) of the promise, and what extractTranscript does with the
\* value: extractTranscriptSync with the elements, extractTranscriptFallback
\* after null. Only the first resolve of a promise settles it.
Resolve(w, value, shown, t) ==
  [w EXCEPT !.pc = "resolved",
            !.resolutions = @ + 1,
            !.value = IF w.resolutions = 0 THEN value ELSE @,
            !.resolvedAt = IF w.resolutions = 0 THEN t ELSE @,
            !.found = IF w.resolutions = 0 THEN shown ELSE @,
            !.then = IF w.resolutions > 0 THEN @
                     ELSE IF value = "elements" THEN "extractTranscriptSync"
                     ELSE "extractTranscriptFallback"]

\* checkForTranscript at time t: resolve with the elements, resolve with
\* null, or set the next timer.
checkForTranscript(w, shown, t) ==
  LET polled == [w EXCEPT !.polls = @ + 1]
  IN  IF shown THEN Resolve(polled, "elements", shown, t)
      ELSE IF TimedOut(w.startTime, t) THEN Resolve(polled, "null", shown, t)
      ELSE [polled EXCEPT !.timers = @ + 1, !.due = t + checkInterval]

\* ------------------------------------------------- autoExtractTranscript
autoStartDelay == 1000
readyPollInterval == 500
readyTimeout == 10000

\* autoExtractTranscript has not run in this document.
NotStarted ==
  [pc |-> "idle", startDue |-> 0, readyStart |-> 0, checkDue |-> 0,
   checkTimers |-> 0, timeoutDue |-> 0, timeoutTimers |-> 0,
   isDOMReady |-> "none", resolvedAt |-> 0, attempted |-> FALSE]

\* resolve(isDOMReady) of waitForYouTubeDOMReady's promise and the code of
\* autoExtractTranscript that awaits it: logTranscript when the DOM is
\* ready, nothing otherwise. Only the first resolve settles the promise.
ResolveReady(a, isDOMReady, t) ==
  IF a.isDOMReady # "none" THEN a
  ELSE [a EXCEPT !.pc = "done",
                 !.isDOMReady = IF isDOMReady THEN "true" ELSE "false",
                 !.resolvedAt = t,
                 !.attempted = isDOMReady]

\* checkReady at time t: resolve(true) when player and title are there,
\* else poll again after readyPollInterval.
checkReady(a, ready, t) ==
  IF ready THEN ResolveReady(a, TRUE, t)
  ELSE [a EXCEPT !.checkTimers = @ + 1, !.checkDue = t + readyPollInterval]

\* ------------------------------------------------------- HEALTH_CHECK
\* The tabs of the window the popup belongs to.
HealthTabs == {1, 2}

\* A tab without content script, and the pages a content script runs in.
NoScript == [loaded |-> FALSE, onYouTube |-> FALSE, onWatch |-> FALSE, player |-> FALSE]
ScriptPages ==
  { [loaded |-> TRUE, onYouTube |-> TRUE, onWatch |-> onWatch, player |-> player] :
      onWatch \in BOOLEAN, player \in BOOLEAN }

\* A health check that takes a loaded script for a ready one.
checkContentScriptHealth_Loaded(page) == page.loaded

\* checkContentScriptHealth of the content script.
checkContentScriptHealth(page) ==
  IF ~page.onYouTube THEN FALSE
  ELSE IF ~page.onWatch THEN FALSE
  ELSE page.player /\ page.onWatch

\* What chrome.tabs.sendMessage(tabId, {type: 'HEALTH_CHECK'}) comes to:
\* it rejects without content script, else the listener's status.
HealthResponse(page) ==
  IF ~page.loaded THEN "rejected"
  ELSE IF checkContentScriptHealth(page) THEN "ready"
  ELSE "not_ready"

ReadyStatus == "Ready to extract transcript"
WaitingStatus == "Waiting for YouTube player to load..."
LoadingStatus == "Loading YouTube integration..."

\* ------------------------------------------------ AnthropicAPI.makeRequest
maxRetries == 3

\* Milliseconds.
baseDelay == 2000

\* The outcome of a fetch that rejects: there is no HTTP status.
NetworkFailure == 0

\* What fetch can produce: an HTTP status or a rejection.
Responses == {200, 400, 401, 403, 429, 500, 529, NetworkFailure}

\* errorData.error?.message of a failed response: absent or present.
BodyMessages == {Null, "prompt is too long"}

RECURSIVE Pow2(_)
Pow2(n) == IF n = 0 THEN 1 ELSE 2 * Pow2(n - 1)

\* response.ok
IsOk(status) == status >= 200 /\ status <= 299

\* A retry of 401 responses as well.
CanRetry_Unauthorized(status, retryCount) ==
  status \in {529, 429, 401} /\ retryCount < maxRetries

\* A retry bound that is off by one.
CanRetry_OneMore(status, retryCount) ==
  status \in {529, 429} /\ retryCount <= maxRetries

\* A retry of server errors as well.
CanRetry_ServerErrors(status, retryCount) ==
  (status \in {529, 429} \/ status >= 500) /\ retryCount < maxRetries

\* The conditions of the two retry branches.
CanRetry(status, retryCount) ==
  status \in {529, 429} /\ retryCount < maxRetries

\* One backoff for both statuses.
RetryDelay_SameForBoth(status, retryCount) == baseDelay * Pow2(retryCount)

\* The delay before the retry of a 529 and of a 429 response.
RetryDelay(status, retryCount) ==
  IF status = 529 THEN baseDelay * Pow2(retryCount)
                  ELSE baseDelay * Pow2(retryCount + 1)

OverloadedMessage ==
  "Anthropic API is currently overloaded. Please try again in a few minutes."
RateLimitMessage == "Rate limit exceeded. Please wait a moment and try again."
AuthMessage == "Invalid API key. Please check your Anthropic API key in settings."
DeniedMessage == "API access denied. Please check your API key permissions."
ServerErrorMessage == "Anthropic API server error. Please try again later."
RequestFailedMessage == "API request failed"
NetworkErrorMessage ==
  "Network error: Please check your internet connection and try again."
InvalidKeyMessage == "Invalid API key"

\* userMessage of a failed response.
ErrorMessage(status, bodyMessage) ==
  IF status = 529 THEN OverloadedMessage
  ELSE IF status = 429 THEN RateLimitMessage
  ELSE IF status = 401 THEN AuthMessage
  ELSE IF status = 403 THEN DeniedMessage
  ELSE IF status >= 500 THEN ServerErrorMessage
  ELSE IF bodyMessage # Null THEN bodyMessage
  ELSE RequestFailedMessage

\* The error Chrome's fetch rejects with; mentionsFetch is
\* message.includes('fetch').
FetchRejection ==
  [name |-> "TypeError", message |-> "Failed to fetch", mentionsFetch |-> TRUE]

\* The message of the error the catch block throws for a caught error.
Rethrown(error) ==
  IF error.name = "TypeError" /\ error.mentionsFetch
  THEN NetworkErrorMessage
  ELSE error.message

\* The retryCount the popup's wrapper passes on to the wrapped makeRequest.
WrapperRetryCount(retryCount) == retryCount

\* The retryCount that reaches makeRequest through n nested wrappers.
RECURSIVE ThroughWrappers(_, _)
ThroughWrappers(retryCount, n) ==
  IF n = 0 THEN retryCount
  ELSE ThroughWrappers(WrapperRetryCount(retryCount), n - 1)

\* ------------------------------------------------- AnthropicAPI's methods
\* An API key is a sequence of chunks, the first being its prefix; no key
\* (null or the empty string) is the empty sequence.
NoKey == << >>
GoodKey == <<"sk-ant-", "api03-0123456789abcdef">>
ShortKey == <<"sk-ant-", "0123456789abc">>
ForeignKey == <<"sk-proj-", "0123456789abcdef0123456789">>
Keys == {NoKey, GoodKey, ShortKey, ForeignKey}

\* apiKey && apiKey.startsWith('sk-ant-') && apiKey.length > 20
isValidApiKey(apiKey) ==
  apiKey # NoKey /\ Head(apiKey) = "sk-ant-" /\ TextLen(apiKey) > 20

\* The transcript arguments: none, one without segments and one with two;
\* the key points arguments: none and a text.
NoTranscriptArg == [present |-> FALSE, segments |-> 0]
NoSegments == [present |-> TRUE, segments |-> 0]
TwoSegments == [present |-> TRUE, segments |-> 2]
TranscriptArgs == {NoTranscriptArg, NoSegments, TwoSegments}
KeyPointsArgs == {Null, "points"}

ConfigurationError == "API key not configured"
TranscriptInputError == "No transcript data provided"
ArticleInputError == "Key points and transcript data required"
KeyFormatError == "Invalid API key format"
UnexpectedFormatError == "Unexpected response format"
TestAuthError == "Invalid API key - authentication failed"
TestPermissionError == "API key does not have required permissions"
TestRateLimitError == "Rate limit exceeded - please try again later"
JsonSyntaxError == "Unexpected token in JSON"
ContentTypeError == "Cannot read properties of undefined (reading '0')"

\* The bodies of a successful response: with a text in the first content
\* block, with an empty content list, without content, and not JSON.
Bodies == {"text", "empty content", "no content", "not json"}

\* An extractKeyPoints that takes a transcript without segments.
Precheck_EmptyAllowed(method, thisKey, argKey, transcript, keyPoints) ==
  IF method = "extractKeyPoints"
  THEN IF thisKey = NoKey THEN ConfigurationError
       ELSE IF ~transcript.present THEN TranscriptInputError
       ELSE "pass"
  ELSE IF method = "generateArticle"
  THEN IF thisKey = NoKey THEN ConfigurationError
       ELSE IF keyPoints = Null \/ ~transcript.present
       THEN ArticleInputError
       ELSE "pass"
  ELSE IF ~isValidApiKey(IF argKey # NoKey THEN argKey ELSE thisKey)
       THEN KeyFormatError
       ELSE "pass"

\* A test of the transcript before the test of the credential.
Precheck_InputFirst(method, thisKey, argKey, transcript, keyPoints) ==
  IF method = "extractKeyPoints"
  THEN IF ~transcript.present \/ transcript.segments = 0
       THEN TranscriptInputError
       ELSE IF thisKey = NoKey THEN ConfigurationError
       ELSE "pass"
  ELSE IF method = "generateArticle"
  THEN IF keyPoints = Null \/ ~transcript.present THEN ArticleInputError
       ELSE IF thisKey = NoKey THEN ConfigurationError
       ELSE "pass"
  ELSE IF ~isValidApiKey(IF argKey # NoKey THEN argKey ELSE thisKey)
       THEN KeyFormatError
       ELSE "pass"

\* The tests extractKeyPoints, generateArticle and testApiKey make before
\* they call makeRequest: the message of the error thrown, or "pass".
Precheck(method, thisKey, argKey, transcript, keyPoints) ==
  IF method = "extractKeyPoints"
  THEN IF thisKey = NoKey THEN ConfigurationError
       ELSE IF ~transcript.present \/ transcript.segments = 0
       THEN TranscriptInputError
       ELSE "pass"
  ELSE IF method = "generateArticle"
  THEN IF thisKey = NoKey THEN ConfigurationError
       ELSE IF keyPoints = Null \/ ~transcript.present
       THEN ArticleInputError
       ELSE "pass"
  ELSE IF ~isValidApiKey(IF argKey # NoKey THEN argKey ELSE thisKey)
       THEN KeyFormatError
       ELSE "pass"

\* The key the method passes to makeRequest.
RequestKey(method, thisKey, argKey) ==
  IF method = "testApiKey" /\ argKey # NoKey THEN argKey ELSE thisKey

\* error.message.includes(code) for the message makeRequest threw after the
\* response with the given status: of its messages only the generic one,
\* 'API request failed: <status> <statusText>', holds digits.
MessageIncludes(message, status, code) ==
  message = RequestFailedMessage /\ status = code

\* The catch block of testApiKey.
TestCatch(message, status) ==
  IF MessageIncludes(message, status, 401) THEN TestAuthError
  ELSE IF MessageIncludes(message, status, 403) THEN TestPermissionError
  ELSE IF MessageIncludes(message, status, 429) THEN TestRateLimitError
  ELSE message

\* A testApiKey that passes on every successful response with a JSON body.
Settled_AnyJsonPasses(method, made, status, body) ==
  IF made # "ok"
  THEN [pc |-> "threw", value |-> Null,
        error |-> IF method = "testApiKey" THEN TestCatch(made, status) ELSE made]
  ELSE IF body = "not json"
  THEN [pc |-> "threw", value |-> Null, error |-> JsonSyntaxError]
  ELSE IF method = "testApiKey"
  THEN [pc |-> "returned", value |-> "true", error |-> Null]
  ELSE IF body = "no content"
  THEN [pc |-> "threw", value |-> Null, error |-> ContentTypeError]
  ELSE [pc |-> "returned", error |-> Null,
        value |-> IF body = "text" THEN "text"
                  ELSE IF method = "extractKeyPoints" THEN "No key points extracted"
                  ELSE "No article generated"]

\* How the method ends once makeRequest has settled: made is "ok" or the
\* message of the error makeRequest threw, status the last HTTP status and
\* body the body of a successful response.
Settled(method, made, status, body) ==
  IF made # "ok"
  THEN [pc |-> "threw", value |-> Null,
        error |-> IF method = "testApiKey" THEN TestCatch(made, status) ELSE made]
  ELSE IF body = "not json"
  THEN [pc |-> "threw", value |-> Null, error |-> JsonSyntaxError]
  ELSE IF method = "testApiKey"
  THEN IF body = "text"
       THEN [pc |-> "returned", value |-> "true", error |-> Null]
       ELSE [pc |-> "threw", value |-> Null, error |-> UnexpectedFormatError]
  ELSE IF body = "no content"
  THEN [pc |-> "threw", value |-> Null, error |-> ContentTypeError]
  ELSE [pc |-> "returned", error |-> Null,
        value |-> IF body = "text" THEN "text"
                  ELSE IF method = "extractKeyPoints" THEN "No key points extracted"
                  ELSE "No article generated"]

\* The client after its constructor, before loadApiKey has read the key.
NewClient ==
  [apiKey |-> NoKey, pc |-> "idle", method |-> "none", argKey |-> NoKey,
   transcript |-> NoTranscriptArg, keyPoints |-> Null, body |-> "none",
   value |-> Null, error |-> Null]

\* ------------------------------------------- the API key and the popup
\* A second key that passes isValidApiKey.
OtherKey == <<"sk-ant-", "api03-fedcba9876543210">>

SavedStatus == "API key saved successfully"
EnterKeyStatus == "Please enter an API key"
KeyFormatStatus == "Invalid API key format"
SaveErrorStatus == "Error saving API key"
UndefinedStatus == "undefined"

\* The popup page before DOMContentLoaded: entered is the last input of
\* handleSaveApiKey, loadPending whether the constructor's loadApiKey still
\* awaits the storage, pointsEnabled the state of the key-points button.
ClosedPopup ==
  [pc |-> "closed", apiKey |-> NoKey, loadPending |-> FALSE, message |-> "",
   entered |-> NoKey, hasTranscript |-> FALSE, pointsEnabled |-> FALSE]

\* AnthropicAPI.loadApiKey once chrome.storage.local.get has settled: the
\* client's key.
loadApiKey(stored, apiKey, readFails) == IF readFails THEN apiKey ELSE stored

\* AnthropicAPI.saveApiKey: what it returns, the stored key and the client's
\* key afterwards.
saveApiKey(stored, apiKey, newKey, writeFails) ==
  IF writeFails THEN [ok |-> FALSE, stored |-> stored, apiKey |-> apiKey]
                ELSE [ok |-> TRUE, stored |-> newKey, apiKey |-> newKey]

\* The message handleSaveApiKey shows for an input and a saveApiKey result:
\* the result is not looked at, and saveApiKey does not throw.
SaveKeyStatus(input, saved) ==
  IF input = NoKey THEN EnterKeyStatus
  ELSE IF ~isValidApiKey(input) THEN KeyFormatStatus
  ELSE SavedStatus

\* extractPointsBtn.disabled, negated.
PointsEnabled(hasTranscript, apiKey) == hasTranscript /\ apiKey # NoKey

\* The declarations of updateApiKeyStatus in the popup's function body, in
\* source order; a call reaches the last one.
updateApiKeyStatusDeclarations == <<"async ()", "(message, isValid)">>
updateApiKeyStatusInForce ==
  updateApiKeyStatusDeclarations[Len(updateApiKeyStatusDeclarations)]

\* 'await updateApiKeyStatus()' of initializeExtension: the popup after it.
InitStatusCall(panel, stored) ==
  IF updateApiKeyStatusInForce = "async ()"
  THEN [panel EXCEPT !.apiKey = stored, !.loadPending = FALSE,
                     !.message = IF stored # NoKey THEN "API key configured"
                                 ELSE "No API key configured",
                     !.pointsEnabled = PointsEnabled(panel.hasTranscript, stored)]
  ELSE [panel EXCEPT !.message = UndefinedStatus]

\* ------------------------------------------------------------------ inputs
\* createdAt, which no operation reads, is not modelled; its characters are
\* counted in EntryFixedLen.

\* Tabs of the store specification.
StoreTabs == {1, 2}

\* Navigations of the store specification: the url and title of a tab.
StoreNavs ==
  { <<WatchUrl("dQw4w9WgXcQ"), "">>,
    <<WatchUrl("dQw4w9WgXcQ"), "Rick Roll">>,
    <<WatchUrl("9bZkp7q19f0"), "Rick Roll">> }

\* The partial states the popup passes to updateTabState after an extraction.
StoreUpdates ==
  { [transcript |-> "T5", isProcessing |-> FALSE, processingStep |-> Null],
    [transcript |-> "T9", isProcessing |-> FALSE, processingStep |-> Null] }

\* The updates of an UPDATE_TAB_STATE message.
MessageUpdates == { [transcript |-> "T9"] }

\* An exported tab map that importTabs reads back.
ImportedTabs ==
  { [ k \in {1} |->
        Merge(createEmptyTabState(1, 0),
              [url |-> WatchUrl("dQw4w9WgXcQ"), title |-> "Rick Roll",
               transcript |-> "T9"]) ] }

\* The sequences over S of at most n elements.
SeqsUpTo(S, n) == UNION { [1..k -> S] : k \in 0..n }

\* Elements of the transcript panel: accepted ones with a timestamp, with a
\* padded timestamp and without a timestamp child, and rejected ones whose
\* text is two characters between white space or is missing.
PanelItems ==
  { [time |-> <<"0:00">>, text |-> <<"abc">>],
    [time |-> <<" ", "0:05", " ">>, text |-> <<" ", "give you up">>],
    [time |-> <<"0:10">>, text |-> <<"let you down", " ">>],
    [time |-> NoChild, text |-> <<"run around">>],
    [time |-> <<"0:15">>, text |-> <<" ", "ab", " ">>],
    [time |-> <<"0:20">>, text |-> NoChild] }

\* Caption texts of two and of three characters.
CaptionTexts == { <<"ab", " ">>, <<" ", "abc">> }

\* Generic texts of two, of ten and of eleven characters.
GeneralTexts == { <<"Hi">>, <<" ", "Subscribe!">>, <<"Hello there">> }

\* A YouTube page on which no selector matches anything.
EmptyPage ==
  [onYouTube |-> TRUE, panel |-> << >>, trigger |-> FALSE, loaded |-> << >>,
   captions |-> << >>, general |-> << >>, throwsAt |-> "none"]

\* Pages whose transcript panel is open.
PanelPages ==
  { [EmptyPage EXCEPT !.panel = panel, !.captions = captions, !.throwsAt = t] :
      panel \in SeqsUpTo(PanelItems, MaxItems) \ {<< >>},
      captions \in {<< >>, << <<"abc">> >>},
      t \in {"none", "panel"} }

\* What the panel holds after the click on the transcript button: nothing
\* within the five seconds, an accepted element or a rejected one.
LoadedPanels ==
  { << >>,
    << [time |-> <<"0:00">>, text |-> <<"abc">>] >>,
    << [time |-> <<"0:15">>, text |-> <<" ", "ab", " ">>] >> }

\* Pages whose transcript panel is closed, with or without the button that
\* opens it.
ClosedPanelPages ==
  { [EmptyPage EXCEPT !.trigger = trigger, !.loaded = loaded,
                      !.captions = captions, !.general = general,
                      !.throwsAt = t] :
      trigger \in BOOLEAN, loaded \in LoadedPanels,
      captions \in SeqsUpTo(CaptionTexts, MaxFallback),
      general \in SeqsUpTo(GeneralTexts, MaxFallback),
      t \in {"none", "panel", "captions", "general"} }

Pages ==
  PanelPages
    \cup { page \in ClosedPanelPages : page.trigger \/ page.loaded = << >> }
    \cup { [EmptyPage EXCEPT !.onYouTube = FALSE] }

\* No EXTRACT_TRANSCRIPT message has been handled in this document.
NotAsked ==
  [state |-> "idle", outcome |-> Pending,
   response |-> [sent |-> FALSE, transcript |-> NullTranscript, error |-> Null]]

\* ------------------------------------------------------------------- state
VARIABLES
  store,    \* chrome.storage.local's youtubeTabs record: tab id -> tab state
  now,      \* the value Date.now() returns
  lastOp,   \* the operation that ran last: its name, tab and evicted ids
  popup,    \* the popup's updateTabState call: its position and locals
  bg,       \* the background's updateTabInfo call: its position and locals
  apiPc,        \* makeRequest: "idle", "fetch", "wait" or "done"
  retryCount,   \* the retryCount argument of the running makeRequest
  requests,     \* fetch calls of the current client call
  delays,       \* the setTimeout delays of the current client call
  responses,    \* what the fetch calls of the current client call produced
  result,       \* "none", "ok" or the message of the error thrown
  wrappers,     \* wrappers the popup handlers have put around makeRequest
  statusAttempt, \* the attempt number the wrapper last showed, 0 for none
  currentTabId,     \* the popup's currentTabId, 0 for null
  currentTabState,  \* the popup's currentTabState
  inFlight,         \* the popup handlers that await their result
  returned,         \* the last getTabState call: its tab, outcome and result
  openTabs,         \* the ids of the tabs chrome.tabs.query({}) returns
  dom,              \* the document the content script runs in
  extraction,       \* the content script's answer to EXTRACT_TRANSCRIPT
  clock,            \* Date.now() in the page, in milliseconds
  panelShown,       \* the transcript panel's segment elements are in the DOM
  panelWait,        \* the waitForTranscriptPanel call and its promise
  pageReady,        \* the player element and the title element are in the DOM
  autoExtract,      \* the autoExtractTranscript run of the content script
  tabPages,         \* what each tab shows and whether its content script runs
  statusText,       \* the text of the popup's status line
  healthChecks,     \* the HEALTH_CHECK messages the popup awaits an answer to
  readinessTimer,   \* the popup's checkReadiness interval is running
  readyFrom,        \* the tab whose answer the status line is based on
  buttons,          \* which of the popup's AI buttons can be clicked
  flights,          \* the extractKeyPoints and generateArticle calls awaited
  client,           \* the AnthropicAPI object: its key and its current call
  lastCall,         \* how the last TabManager call on a failing storage ended
  autoFix,          \* handleExtractTranscript and its repair of a silent content script
  keyStore,         \* the stored anthropic_api_key
  keyPanel          \* the popup page: the client key, the settings panel, the AI button

storeVars == <<store, now, lastOp>>
concVars == <<popup, bg>>
apiVars ==
  <<apiPc, retryCount, requests, delays, responses, result, wrappers, statusAttempt>>
flowVars == <<currentTabId, currentTabState, inFlight>>

\* The variables of the popup page and of the later sections.
readVars == <<returned>>
cleanupVars == <<openTabs>>
extractVars == <<dom, extraction>>
panelVars == <<clock, panelShown, panelWait>>
\* The variables of the sections after the content script's extraction.
autoVars == <<pageReady, autoExtract>>
healthVars == <<tabPages, statusText, healthChecks, readinessTimer, readyFrom>>
buttonVars == <<buttons, flights>>
clientVars == <<client>>
failVars == <<lastCall>>
fixVars == <<autoFix>>
keyVars == <<keyStore, keyPanel>>
pageVars == <<panelVars, autoVars, healthVars, buttonVars, clientVars, failVars, fixVars, keyVars>>
extVars == <<flowVars, readVars, cleanupVars, extractVars, pageVars>>

vars == <<storeVars, concVars, apiVars, extVars>>

NoOp == [op |-> "none", tab |-> 0, over |-> FALSE, evicted |-> {}]

\* No popup handler awaits a result: for each handler, the tab it was started
\* on, or 0.
NoFlight == [transcript |-> 0, keyPoints |-> 0, article |-> 0]

\* A process that has no call running.
IdleCall ==
  [pc |-> "idle", tab |-> 0, updates |-> << >>, url |-> EmptyUrl, title |-> "",
   newState |-> << >>, snap |-> << >>, stamp |-> 0]

\* The extension after installation, before any page is looked at.
InitExtension ==
  /\ store = << >>
  /\ now = 0
  /\ lastOp = NoOp
  /\ popup = IdleCall
  /\ bg = IdleCall
  /\ apiPc = "idle"
  /\ retryCount = 0
  /\ requests = 0
  /\ delays = << >>
  /\ responses = << >>
  /\ result = "none"
  /\ wrappers = 0
  /\ statusAttempt = 0
  /\ currentTabId = 0
  /\ currentTabState = createEmptyTabState(0, 0)
  /\ inFlight = NoFlight
  /\ returned = [tab |-> 0, failed |-> FALSE, state |-> createEmptyTabState(0, 0)]
  /\ openTabs = {}
  /\ clock = 0
  /\ panelShown = FALSE
  /\ panelWait = NotWaiting
  /\ pageReady = FALSE
  /\ autoExtract = NotStarted
  /\ tabPages = [tabId \in HealthTabs |-> NoScript]
  /\ statusText = ""
  /\ healthChecks = {}
  /\ readinessTimer = FALSE
  /\ readyFrom = 0
  /\ buttons = [extractPoints |-> FALSE, generateArticle |-> FALSE]
  /\ flights = [keyPoints |-> 0, article |-> 0]
  /\ client = NewClient
  /\ lastCall = NoCall
  /\ autoFix = NoExtraction
  /\ keyStore = NoKey
  /\ keyPanel = ClosedPopup

Init ==
  /\ InitExtension
  /\ dom = EmptyPage
  /\ extraction = NotAsked

\* The content script has been injected into some page.
InitExtract ==
  /\ InitExtension
  /\ dom \in Pages
  /\ extraction = NotAsked

\* What lastOp records of an operation that wrote without capacity check.
Plain(op, tabId) == [op |-> op, tab |-> tabId, over |-> FALSE, evicted |-> {}]

\* saveTabState(tabId, tabState) on the stored map: the map is written and
\* lastOp records whether the map with the new state was over the limit and
\* which ids were evicted from it.
SaveStore(op, tabId, tabState) ==
  /\ store' = saveTabState(store, tabId, tabState, now)
  /\ lastOp' =
       [op |-> op, tab |-> tabId,
        over |-> StoreJsonLen(SaveCandidate(store, tabId, tabState, now)) > maxStorageSize,
        evicted |-> (DOMAIN store \cup {tabId}) \ DOMAIN store']

Save(op, tabId, tabState) ==
  /\ SaveStore(op, tabId, tabState)
  /\ UNCHANGED <<extVars, now, concVars, apiVars>>

\* ----------------------------------------------------------------- actions
\* Time passes between two calls of Date.now().
Tick ==
  /\ now < MaxTime
  /\ now' = now + 1
  /\ UNCHANGED <<extVars, store, lastOp, concVars, apiVars>>

InitializeTab(tabId, url, title) ==
  IF InitBranch(StateOf(store, tabId, now), url, title) = "same video, no change"
  THEN /\ lastOp' = Plain("initializeTab", tabId)
       /\ UNCHANGED <<extVars, store, now, concVars, apiVars>>
  ELSE Save("initializeTab", tabId, InitState(store, tabId, url, title, now))

UpdateTabState(tabId, updates) ==
  Save("updateTabState", tabId, UpdatedState(store, tabId, updates, now))

SetProcessingStatus(tabId, isProcessing, step) ==
  Save("setProcessingStatus", tabId,
       UpdatedState(store, tabId, ProcessingUpdates(isProcessing, step), now))

SetError(tabId, error) ==
  Save("setError", tabId, UpdatedState(store, tabId, ErrorUpdates(error), now))

RemoveTab(tabId) ==
  /\ store' = removeTab(store, tabId)
  /\ lastOp' = Plain("removeTab", tabId)
  /\ UNCHANGED <<extVars, now, concVars, apiVars>>

\* importTabs: the imported map replaces the stored one as it is.
ImportTabs(tabs) ==
  /\ store' = tabs
  /\ lastOp' = Plain("importTabs", 0)
  /\ UNCHANGED <<extVars, now, concVars, apiVars>>

\* chrome.tabs.onUpdated: a YouTube tab finished loading.
OnTabUpdated(tabId, url, title) ==
  /\ isYouTubeUrl(url)
  /\ store' = updateTabInfo(store, tabId, url, title, now)
  /\ lastOp' = Plain("updateTabInfo", tabId)
  /\ UNCHANGED <<extVars, now, concVars, apiVars>>

\* chrome.runtime.onMessage, UPDATE_TAB_STATE: only a stored tab is updated.
OnUpdateTabStateMessage(tabId, updates) ==
  /\ tabId \in DOMAIN store
  /\ store' = bgUpdateTabState(store, tabId, updates, now)
  /\ lastOp' = Plain("UPDATE_TAB_STATE", tabId)
  /\ UNCHANGED <<extVars, now, concVars, apiVars>>

Next ==
  \/ Tick
  \/ \E tabId \in StoreTabs, nav \in StoreNavs : InitializeTab(tabId, nav[1], nav[2])
  \/ \E tabId \in StoreTabs, updates \in StoreUpdates : UpdateTabState(tabId, updates)
  \/ \E tabId \in StoreTabs : SetProcessingStatus(tabId, TRUE, "extracting transcript")
  \/ \E tabId \in StoreTabs : SetError(tabId, "failed")
  \/ \E tabId \in StoreTabs : RemoveTab(tabId)
  \/ \E tabs \in ImportedTabs : ImportTabs(tabs)
  \/ \E tabId \in StoreTabs, nav \in StoreNavs : OnTabUpdated(tabId, nav[1], nav[2])
  \/ \E tabId \in StoreTabs, updates \in MessageUpdates :
       OnUpdateTabStateMessage(tabId, updates)

Spec == Init /\ [][Next]_vars

\* The capacity specification: three tabs, transcripts of 3, 5 and 9 MiB.
CapTabs == {1, 2, 3}

CapUpdates ==
  { [transcript |-> "T3", isProcessing |-> FALSE, processingStep |-> Null],
    [transcript |-> "T5", isProcessing |-> FALSE, processingStep |-> Null] }

NextCap ==
  \/ Tick
  \/ \E tabId \in CapTabs, updates \in CapUpdates : UpdateTabState(tabId, updates)
  \/ \E tabId \in CapTabs, updates \in MessageUpdates :
       OnUpdateTabStateMessage(tabId, updates)

SpecCap == Init /\ [][NextCap]_vars

\* The navigation specification: one tab, every URL shape of two videos.
NavTabs == {1}

Variants(id) ==
  { WatchUrl(id), WatchUrlWithParams(id), WatchUrlParamFirst(id),
    ShortUrl(id), EmbedUrl(id), VUrl(id) }

NavUrls == UNION { Variants(id) : id \in VideoIds }

NavTitles == {"", "Rick Roll"}

NavUpdates ==
  { [transcript |-> "segments"], [keyPoints |-> "points"], [article |-> "text"] }

NextNav ==
  \/ Tick
  \/ \E tabId \in NavTabs, url \in NavUrls, title \in NavTitles :
       InitializeTab(tabId, url, title)
  \/ \E tabId \in NavTabs, updates \in NavUpdates : UpdateTabState(tabId, updates)

SpecNav == Init /\ [][NextNav]_vars

\* ------------------------------------------- overlapping storage accesses
\* updateTabState in the popup, one step per storage access.
PopupCall(tabId, updates) ==
  /\ popup.pc \in {"idle", "done"}
  /\ popup' = [IdleCall EXCEPT !.pc = "get", !.tab = tabId, !.updates = updates]
  /\ UNCHANGED <<extVars, storeVars, bg, apiVars>>

\* getTabState reads the map; newState is the merge.
PopupGetTabState ==
  /\ popup.pc = "get"
  /\ popup' = [popup EXCEPT !.pc = "read",
                 !.newState = UpdatedState(store, popup.tab, popup.updates, now)]
  /\ UNCHANGED <<extVars, storeVars, bg, apiVars>>

\* saveTabState reads the map again and stamps the entry with Date.now().
PopupGetAllTabs ==
  /\ popup.pc = "read"
  /\ popup' = [popup EXCEPT !.pc = "write", !.snap = store, !.stamp = now]
  /\ UNCHANGED <<extVars, storeVars, bg, apiVars>>

\* saveTabState writes the map it read with the new state put in.
PopupSet ==
  /\ popup.pc = "write"
  /\ store' = saveTabState(popup.snap, popup.tab, popup.newState, popup.stamp)
  /\ popup' = [popup EXCEPT !.pc = "done"]
  /\ UNCHANGED <<extVars, now, lastOp, bg, apiVars>>

\* chrome.tabs.onUpdated calls updateTabInfo for a YouTube tab.
BgCall(tabId, url, title) ==
  /\ bg.pc \in {"idle", "done"}
  /\ isYouTubeUrl(url)
  /\ bg' = [IdleCall EXCEPT !.pc = "read", !.tab = tabId, !.url = url, !.title = title]
  /\ UNCHANGED <<extVars, storeVars, popup, apiVars>>

\* updateTabInfo reads the map and stamps the entry with Date.now().
BgGet ==
  /\ bg.pc = "read"
  /\ bg' = [bg EXCEPT !.pc = "write", !.snap = store, !.stamp = now]
  /\ UNCHANGED <<extVars, storeVars, popup, apiVars>>

\* updateTabInfo writes the map it read with the tab's entry updated.
BgSet ==
  /\ bg.pc = "write"
  /\ store' = updateTabInfo(bg.snap, bg.tab, bg.url, bg.title, bg.stamp)
  /\ bg' = [bg EXCEPT !.pc = "done"]
  /\ UNCHANGED <<extVars, now, lastOp, popup, apiVars>>

ConcTabs == {1, 2}

ConcUpdates == { [transcript |-> "segments"], [keyPoints |-> "points"] }

ConcNavs == { <<WatchUrl("dQw4w9WgXcQ"), "Rick Roll">> }

NextConc ==
  \/ \E tabId \in ConcTabs, updates \in ConcUpdates : PopupCall(tabId, updates)
  \/ PopupGetTabState
  \/ PopupGetAllTabs
  \/ PopupSet
  \/ \E tabId \in ConcTabs, nav \in ConcNavs : BgCall(tabId, nav[1], nav[2])
  \/ BgGet
  \/ BgSet

SpecConc == Init /\ [][NextConc]_vars

\* Two flows that write the state of one tab while time passes.
StampTabs == {1}

NextStamp ==
  \/ Tick
  \/ \E tabId \in StampTabs : PopupCall(tabId, [transcript |-> "segments"])
  \/ PopupGetTabState
  \/ PopupGetAllTabs
  \/ PopupSet
  \/ \E tabId \in StampTabs, nav \in ConcNavs : BgCall(tabId, nav[1], nav[2])
  \/ BgGet
  \/ BgSet

SpecStamp == Init /\ [][NextStamp]_vars

\* ------------------------------------------------------ makeRequest calls
\* makeRequest is entered with retryCount 0: the key is validated.
BeginRequest(validKey) ==
  /\ retryCount' = 0
  /\ requests' = 0
  /\ delays' = << >>
  /\ responses' = << >>
  /\ statusAttempt' = 0
  /\ IF validKey THEN apiPc' = "fetch" /\ result' = "none"
                 ELSE apiPc' = "done" /\ result' = InvalidKeyMessage

\* handleExtractKeyPoints or handleGenerateArticle: one more wrapper is put
\* around makeRequest, then extractKeyPoints or generateArticle calls it.
PopupRequest(validKey) ==
  /\ apiPc \in {"idle", "done"}
  /\ wrappers < MaxWrap
  /\ wrappers' = wrappers + 1
  /\ BeginRequest(validKey)
  /\ UNCHANGED <<extVars, storeVars, concVars>>

\* testApiKey calls makeRequest as it finds it.
TestApiKey(validKey) ==
  /\ apiPc \in {"idle", "done"}
  /\ BeginRequest(validKey)
  /\ UNCHANGED <<extVars, storeVars, concVars, wrappers>>

\* The popup page is closed and opened again: makeRequest is unwrapped.
PopupReopened ==
  /\ apiPc \in {"idle", "done"}
  /\ wrappers > 0
  /\ wrappers' = 0
  /\ UNCHANGED <<extVars, storeVars, concVars, apiPc, retryCount, requests, delays,
                 responses, result, statusAttempt>>

\* fetch settles with an HTTP status or rejects.
Respond(status, bodyMessage) ==
  /\ apiPc = "fetch"
  /\ requests' = requests + 1
  /\ responses' = Append(responses, status)
  /\ IF status = NetworkFailure
     THEN apiPc' = "done" /\ result' = Rethrown(FetchRejection) /\ UNCHANGED delays
     ELSE IF IsOk(status)
     THEN apiPc' = "done" /\ result' = "ok" /\ UNCHANGED delays
     ELSE IF CanRetry(status, retryCount)
     THEN /\ apiPc' = "wait"
          /\ delays' = Append(delays, RetryDelay(status, retryCount))
          /\ UNCHANGED result
     ELSE /\ apiPc' = "done"
          /\ result' = ErrorMessage(status, bodyMessage)
          /\ UNCHANGED delays
  /\ UNCHANGED <<extVars, storeVars, concVars, retryCount, wrappers, statusAttempt>>

\* The timer fires: this.makeRequest(..., retryCount + 1) goes through the
\* wrappers, which show the attempt, and the key is valid as before.
TimerFires ==
  /\ apiPc = "wait"
  /\ retryCount' = ThroughWrappers(retryCount + 1, wrappers)
  /\ statusAttempt' = IF wrappers > 0 THEN retryCount + 2 ELSE statusAttempt
  /\ apiPc' = "fetch"
  /\ UNCHANGED <<extVars, storeVars, concVars, requests, delays, responses, result, wrappers>>

NextApi ==
  \/ \E validKey \in BOOLEAN : PopupRequest(validKey)
  \/ \E validKey \in BOOLEAN : TestApiKey(validKey)
  \/ PopupReopened
  \/ \E status \in Responses, bodyMessage \in BodyMessages : Respond(status, bodyMessage)
  \/ TimerFires

SpecApi == Init /\ [][NextApi]_vars

\* Timers fire and every fetch settles.
SpecApiFair ==
  /\ SpecApi
  /\ WF_vars(TimerFires)
  /\ WF_vars(\E status \in Responses, bodyMessage \in BodyMessages :
               Respond(status, bodyMessage))

\* ---------------------------------------------------------------- reading
\* getTabState(tabId): the storage read succeeds or throws.
GetTabState(tabId, readFails) ==
  /\ returned' = [tab |-> tabId, failed |-> readFails,
                  state |-> StateOf(getAllTabs(store, readFails), tabId, now)]
  /\ UNCHANGED <<storeVars, concVars, apiVars, flowVars, cleanupVars, extractVars, pageVars>>

NextRead ==
  \/ NextCap
  \/ \E tabId \in CapTabs : RemoveTab(tabId)
  \/ \E tabId \in CapTabs, readFails \in BOOLEAN : GetTabState(tabId, readFails)

SpecRead == Init /\ [][NextRead]_vars

\* ---------------------------------------------------------------- cleanup
cleanupRest == <<concVars, apiVars, flowVars, readVars, extractVars, pageVars>>

\* The instants Date.now() takes in the cleanup specifications: the start,
\* and 1 hour, 25 hours, 7 days and 1 hour, 8 days and 1 hour later.
Instants == {0, HourMs, 25 * HourMs, 169 * HourMs, 193 * HourMs}

\* Time passes up to a later instant.
AdvanceTo(t) ==
  /\ t > now
  /\ now' = t
  /\ UNCHANGED <<store, lastOp, openTabs, cleanupRest>>

\* The user opens a tab.
TabOpened(tabId) ==
  /\ tabId \notin openTabs
  /\ openTabs' = openTabs \cup {tabId}
  /\ UNCHANGED <<storeVars, cleanupRest>>

\* chrome.tabs.onRemoved: the stored data is left for the cleanup.
TabClosed(tabId) ==
  /\ tabId \in openTabs
  /\ openTabs' = openTabs \ {tabId}
  /\ UNCHANGED <<storeVars, cleanupRest>>

\* TabManager.cleanupOldTabs()
CleanupOldTabs ==
  /\ store' = cleanupOldTabs(store, openTabs, now)
  /\ lastOp' = [op |-> "cleanupOldTabs", tab |-> 0, over |-> FALSE,
                evicted |-> CleanedUp(store, openTabs, now)]
  /\ UNCHANGED <<now, openTabs, cleanupRest>>

\* chrome.alarms.onAlarm, 'cleanupTabs': the handler gets the tab manager and
\* does nothing with it.
OnCleanupAlarm ==
  /\ lastOp' = Plain("cleanupTabs alarm", 0)
  /\ UNCHANGED <<store, now, openTabs, cleanupRest>>

\* chrome.runtime.onStartup: the same.
OnStartup ==
  /\ lastOp' = Plain("startup", 0)
  /\ UNCHANGED <<store, now, openTabs, cleanupRest>>

CleanupTabs == {1, 2}

CleanupUpdates == { [transcript |-> "segments"] }

\* What happens around the cleanup: time passes, tabs are opened and closed,
\* the popup saves a transcript of an open tab.
CleanupEnvironment ==
  \/ \E t \in Instants : AdvanceTo(t)
  \/ \E tabId \in CleanupTabs : TabOpened(tabId)
  \/ \E tabId \in CleanupTabs : TabClosed(tabId)
  \/ \E tabId \in CleanupTabs, updates \in CleanupUpdates :
       tabId \in openTabs /\ UpdateTabState(tabId, updates)

\* cleanupOldTabs called as an operation of the tab manager.
NextCleanup ==
  \/ CleanupEnvironment
  \/ CleanupOldTabs

SpecCleanup == Init /\ [][NextCleanup]_vars

\* The extension as it runs: the alarm fires every hour.
NextAlarm ==
  \/ CleanupEnvironment
  \/ OnCleanupAlarm
  \/ OnStartup

SpecAlarm == Init /\ [][NextAlarm]_vars /\ WF_vars(OnCleanupAlarm)

\* ------------------------------------------------------- the popup's flows
\* What the popup's handlers leave alone besides the store and the popup.
flowRest == <<now, concVars, apiVars, readVars, cleanupVars, extractVars, pageVars>>

\* initializeCurrentTab when the active YouTube tab is not currentTabId:
\* initializeTab, then loadCurrentTabState.
SwitchToTab(tabId, url, title) ==
  /\ tabId # currentTabId
  /\ isYouTubeUrl(url)
  /\ currentTabId' = tabId
  /\ IF InitBranch(StateOf(store, tabId, now), url, title) = "same video, no change"
     THEN lastOp' = Plain("initializeTab", tabId) /\ UNCHANGED store
     ELSE SaveStore("initializeTab", tabId, InitState(store, tabId, url, title, now))
  /\ currentTabState' = StateOf(store', tabId, now)
  /\ UNCHANGED <<inFlight, flowRest>>

\* initializeCurrentTab when the active tab is currentTabId (TAB_UPDATED,
\* TAB_REMOVED, visibilitychange): loadCurrentTabState only.
RefreshState ==
  /\ currentTabId # 0
  /\ currentTabState' = StateOf(store, currentTabId, now)
  /\ UNCHANGED <<store, lastOp, currentTabId, inFlight, flowRest>>

\* The popup page is closed: its variables and pending handlers are gone.
PopupClosed ==
  /\ currentTabId # 0
  /\ currentTabId' = 0
  /\ currentTabState' = createEmptyTabState(0, 0)
  /\ inFlight' = NoFlight
  /\ UNCHANGED <<store, lastOp, flowRest>>

\* handleExtractTranscript up to the message to the content script.
ExtractTranscriptClick ==
  /\ currentTabId # 0
  /\ inFlight.transcript = 0
  /\ SaveStore("setProcessingStatus", currentTabId,
       UpdatedState(store, currentTabId,
                    ProcessingUpdates(TRUE, "extracting transcript"), now))
  /\ inFlight' = [inFlight EXCEPT !.transcript = currentTabId]
  /\ UNCHANGED <<currentTabId, currentTabState, flowRest>>

TranscriptOutcomes == {"segments", "empty", "error"}

\* The rest of handleExtractTranscript: the response has segments, has
\* none, or an error was thrown.
ExtractTranscriptDone(outcome) ==
  /\ inFlight.transcript # 0
  /\ currentTabId # 0
  /\ inFlight' = [inFlight EXCEPT !.transcript = 0]
  /\ IF outcome = "segments"
     THEN /\ SaveStore("updateTabState", currentTabId,
               UpdatedState(store, currentTabId,
                 [transcript |-> "segments", isProcessing |-> FALSE,
                  processingStep |-> Null], now))
          /\ currentTabState' = [currentTabState EXCEPT !.transcript = "segments"]
     ELSE IF outcome = "empty"
     THEN /\ SaveStore("setProcessingStatus", currentTabId,
               UpdatedState(store, currentTabId, ProcessingUpdates(FALSE, Null), now))
          /\ UNCHANGED currentTabState
     ELSE /\ SaveStore("setError", currentTabId,
               UpdatedState(store, currentTabId, ErrorUpdates("failed"), now))
          /\ UNCHANGED currentTabState
  /\ UNCHANGED <<currentTabId, flowRest>>

\* handleExtractKeyPoints up to the request (an API key is configured).
ExtractKeyPointsClick ==
  /\ currentTabId # 0
  /\ currentTabState.transcript # Null
  /\ inFlight.keyPoints = 0
  /\ SaveStore("setProcessingStatus", currentTabId,
       UpdatedState(store, currentTabId,
                    ProcessingUpdates(TRUE, "extracting key points"), now))
  /\ inFlight' = [inFlight EXCEPT !.keyPoints = currentTabId]
  /\ UNCHANGED <<currentTabId, currentTabState, flowRest>>

\* The rest of handleExtractKeyPoints: extractKeyPoints returned or threw.
ExtractKeyPointsDone(ok) ==
  /\ inFlight.keyPoints # 0
  /\ currentTabId # 0
  /\ inFlight' = [inFlight EXCEPT !.keyPoints = 0]
  /\ IF ok
     THEN /\ SaveStore("updateTabState", currentTabId,
               UpdatedState(store, currentTabId,
                 [keyPoints |-> "points", isProcessing |-> FALSE,
                  processingStep |-> Null], now))
          /\ currentTabState' = [currentTabState EXCEPT !.keyPoints = "points"]
     ELSE /\ SaveStore("setError", currentTabId,
               UpdatedState(store, currentTabId, ErrorUpdates("failed"), now))
          /\ UNCHANGED currentTabState
  /\ UNCHANGED <<currentTabId, flowRest>>

\* handleGenerateArticle up to the request.
GenerateArticleClick ==
  /\ currentTabId # 0
  /\ currentTabState.keyPoints # Null
  /\ currentTabState.transcript # Null
  /\ inFlight.article = 0
  /\ SaveStore("setProcessingStatus", currentTabId,
       UpdatedState(store, currentTabId,
                    ProcessingUpdates(TRUE, "generating article"), now))
  /\ inFlight' = [inFlight EXCEPT !.article = currentTabId]
  /\ UNCHANGED <<currentTabId, currentTabState, flowRest>>

\* The rest of handleGenerateArticle: generateArticle returned or threw.
GenerateArticleDone(ok) ==
  /\ inFlight.article # 0
  /\ currentTabId # 0
  /\ inFlight' = [inFlight EXCEPT !.article = 0]
  /\ IF ok
     THEN /\ SaveStore("updateTabState", currentTabId,
               UpdatedState(store, currentTabId,
                 [article |-> "text", isProcessing |-> FALSE,
                  processingStep |-> Null], now))
          /\ currentTabState' = [currentTabState EXCEPT !.article = "text"]
     ELSE /\ SaveStore("setError", currentTabId,
               UpdatedState(store, currentTabId, ErrorUpdates("failed"), now))
          /\ UNCHANGED currentTabState
  /\ UNCHANGED <<currentTabId, flowRest>>

\* The active tab the popup finds: its id, url and title. Tab 1 shows one of
\* two videos, tab 2 one video.
FlowNavs ==
  { <<1, WatchUrl("dQw4w9WgXcQ"), "Rick Roll">>,
    <<1, WatchUrl("9bZkp7q19f0"), "Rick Roll">>,
    <<2, WatchUrl("dQw4w9WgXcQ"), "Rick Roll">> }

NextFlow ==
  \/ \E nav \in FlowNavs : SwitchToTab(nav[1], nav[2], nav[3])
  \/ RefreshState
  \/ PopupClosed
  \/ ExtractTranscriptClick
  \/ \E outcome \in TranscriptOutcomes : ExtractTranscriptDone(outcome)
  \/ ExtractKeyPointsClick
  \/ \E ok \in BOOLEAN : ExtractKeyPointsDone(ok)
  \/ GenerateArticleClick
  \/ \E ok \in BOOLEAN : GenerateArticleDone(ok)

SpecFlow == Init /\ [][NextFlow]_vars

\* -------------------------------------------------------- content script
extractRest == <<storeVars, concVars, apiVars, flowVars, readVars, cleanupVars, pageVars>>

\* The listener's EXTRACT_TRANSCRIPT branch, with the logTranscript and
\* extractTranscript calls it makes.
OnExtractTranscript ==
  /\ extraction.state = "idle"
  /\ extraction' = [state |-> "done", outcome |-> extractTranscript(dom),
                    response |-> ListenerResponse(extractTranscript(dom))]
  /\ UNCHANGED <<dom, extractRest>>

NextExtract == OnExtractTranscript

SpecExtract == InitExtract /\ [][NextExtract]_vars

\* ------------------------------------------------ waiting for the panel
panelRest ==
  <<storeVars, concVars, apiVars, flowVars, readVars, cleanupVars, extractVars,
    autoVars, healthVars, buttonVars, clientVars, failVars, fixVars, keyVars>>

\* The latest instant at which the wait starts, and the end of the clock.
LatestStart == 2 * ClockStep
ClockEnd == LatestStart + maxWaitTime + 2 * checkInterval

\* Time passes; a timer that is due fires at most MaxLate steps late.
ClockAdvances ==
  /\ clock + ClockStep <= ClockEnd
  /\ panelWait.timers > 0 => clock < panelWait.due + MaxLate * ClockStep
  /\ clock' = clock + ClockStep
  /\ UNCHANGED <<panelShown, panelWait, panelRest>>

\* extractTranscript has clicked the transcript button and calls
\* waitForTranscriptPanel, which makes its first check at once.
WaitForTranscriptPanel ==
  /\ panelWait.pc = "idle"
  /\ clock <= LatestStart
  /\ panelWait' =
       checkForTranscript([panelWait EXCEPT !.pc = "polling", !.startTime = clock],
                          panelShown, clock)
  /\ UNCHANGED <<clock, panelShown, panelRest>>

\* YouTube puts the segment elements of the opened panel into the DOM.
PanelLoads ==
  /\ panelWait.pc # "idle"
  /\ ~panelShown
  /\ panelShown' = TRUE
  /\ UNCHANGED <<clock, panelWait, panelRest>>

\* The timer set by checkForTranscript fires and runs it again.
PollTimerFires ==
  /\ panelWait.timers > 0
  /\ clock >= panelWait.due
  /\ panelWait' =
       checkForTranscript([panelWait EXCEPT !.timers = @ - 1], panelShown, clock)
  /\ UNCHANGED <<clock, panelShown, panelRest>>

NextPanelWait ==
  \/ ClockAdvances
  \/ WaitForTranscriptPanel
  \/ PanelLoads
  \/ PollTimerFires

\* Time goes on and timers that are due fire.
SpecPanelWait ==
  /\ Init
  /\ [][NextPanelWait]_vars
  /\ WF_vars(ClockAdvances)
  /\ WF_vars(PollTimerFires)

\* ------------------------------------------------- automatic extraction
autoRest ==
  <<storeVars, concVars, apiVars, flowVars, readVars, cleanupVars, extractVars,
    panelShown, panelWait, healthVars, buttonVars, clientVars, failVars, fixVars, keyVars>>

\* The end of the clock of an automatic extraction.
AutoClockEnd == autoStartDelay + readyTimeout + 2 * readyPollInterval

\* The earliest timer of the run that is pending, AutoClockEnd when none is.
NextAutoTimer ==
  LET dues == (IF autoExtract.pc = "scheduled" THEN {autoExtract.startDue} ELSE {})
                \cup (IF autoExtract.checkTimers > 0 THEN {autoExtract.checkDue} ELSE {})
                \cup (IF autoExtract.timeoutTimers > 0 THEN {autoExtract.timeoutDue} ELSE {})
  IN  IF dues = {} THEN AutoClockEnd
      ELSE CHOOSE d \in dues : \A e \in dues : d <= e

\* Time passes, up to the next timer that is due.
AutoClockAdvances ==
  /\ autoExtract.pc # "idle"
  /\ clock + ClockStep <= AutoClockEnd
  /\ clock < NextAutoTimer + MaxLate * ClockStep
  /\ clock' = clock + ClockStep
  /\ UNCHANGED <<autoVars, autoRest>>

\* The content script starts on a watch page: autoExtractTranscript sets the
\* timer of one second.
AutoExtractTranscript ==
  /\ autoExtract.pc = "idle"
  /\ autoExtract' = [autoExtract EXCEPT !.pc = "scheduled",
                                        !.startDue = clock + autoStartDelay]
  /\ UNCHANGED <<clock, pageReady, autoRest>>

\* The timer of one second fires: waitForYouTubeDOMReady sets its timeout of
\* ten seconds and runs checkReady.
AutoTimerFires ==
  /\ autoExtract.pc = "scheduled"
  /\ clock >= autoExtract.startDue
  /\ autoExtract' =
       checkReady([autoExtract EXCEPT !.pc = "waiting", !.readyStart = clock,
                                      !.timeoutTimers = 1,
                                      !.timeoutDue = clock + readyTimeout],
                  pageReady, clock)
  /\ UNCHANGED <<clock, pageReady, autoRest>>

\* The poll timer fires and runs checkReady again.
ReadyPollFires ==
  /\ autoExtract.checkTimers > 0
  /\ clock >= autoExtract.checkDue
  /\ autoExtract' =
       checkReady([autoExtract EXCEPT !.checkTimers = @ - 1], pageReady, clock)
  /\ UNCHANGED <<clock, pageReady, autoRest>>

\* The timeout of ten seconds fires: resolve(false).
ReadyTimeoutFires ==
  /\ autoExtract.timeoutTimers > 0
  /\ clock >= autoExtract.timeoutDue
  /\ autoExtract' =
       ResolveReady([autoExtract EXCEPT !.timeoutTimers = @ - 1], FALSE, clock)
  /\ UNCHANGED <<clock, pageReady, autoRest>>

\* YouTube puts the player and the title into the DOM.
PageBecomesReady ==
  /\ autoExtract.pc # "idle"
  /\ ~pageReady
  /\ pageReady' = TRUE
  /\ UNCHANGED <<clock, autoExtract, autoRest>>

NextAuto ==
  \/ AutoClockAdvances
  \/ AutoExtractTranscript
  \/ AutoTimerFires
  \/ ReadyPollFires
  \/ ReadyTimeoutFires
  \/ PageBecomesReady

SpecAuto == Init /\ [][NextAuto]_vars

\* ------------------------------------------------- the popup's status line
healthRest ==
  <<storeVars, concVars, apiVars, currentTabState, inFlight, readVars,
    cleanupVars, extractVars, panelVars, autoVars, buttonVars, clientVars, failVars, fixVars, keyVars>>

\* The tab loads another page, with or without content script.
TabShows(tabId, page) ==
  /\ tabPages[tabId] # page
  /\ tabPages' = [tabPages EXCEPT ![tabId] = page]
  /\ UNCHANGED <<currentTabId, statusText, healthChecks, readinessTimer, readyFrom, healthRest>>

\* initializeCurrentTab finds tabId active and updateUIForCurrentTab, for a
\* state without transcript that is not processing, sends its first
\* HEALTH_CHECK to it.
ShowTab(tabId) ==
  /\ currentTabId' = tabId
  /\ healthChecks' = healthChecks \cup {[tab |-> tabId, step |-> "first"]}
  /\ UNCHANGED <<tabPages, statusText, readinessTimer, readyFrom, healthRest>>

\* The answer to the first HEALTH_CHECK: 'ready' sets the ready status,
\* anything else makes the popup probe the tab that is current by now.
FirstHealthAnswer(check) ==
  /\ check \in healthChecks
  /\ check.step = "first"
  /\ IF HealthResponse(tabPages[check.tab]) = "ready"
     THEN /\ statusText' = ReadyStatus
          /\ readyFrom' = check.tab
          /\ healthChecks' = healthChecks \ {check}
     ELSE /\ healthChecks' =
               (healthChecks \ {check}) \cup {[tab |-> currentTabId, step |-> "probe"]}
          /\ UNCHANGED <<statusText, readyFrom>>
  /\ UNCHANGED <<tabPages, currentTabId, readinessTimer, healthRest>>

\* The answer to the probe: a response starts the checkReadiness interval,
\* a rejection shows that the integration is loading.
ProbeAnswer(check) ==
  /\ check \in healthChecks
  /\ check.step = "probe"
  /\ healthChecks' = healthChecks \ {check}
  /\ IF HealthResponse(tabPages[check.tab]) # "rejected"
     THEN statusText' = WaitingStatus /\ readinessTimer' = TRUE
     ELSE statusText' = LoadingStatus /\ UNCHANGED readinessTimer
  /\ readyFrom' = 0
  /\ UNCHANGED <<tabPages, currentTabId, healthRest>>

\* The checkReadiness interval fires: a HEALTH_CHECK goes to the current tab.
ReadinessTick ==
  /\ readinessTimer
  /\ healthChecks' = healthChecks \cup {[tab |-> currentTabId, step |-> "interval"]}
  /\ UNCHANGED <<tabPages, currentTabId, statusText, readinessTimer, readyFrom, healthRest>>

\* The answer to a HEALTH_CHECK of the interval: 'ready' sets the ready
\* status and clears the interval.
ReadinessAnswer(check) ==
  /\ check \in healthChecks
  /\ check.step = "interval"
  /\ healthChecks' = healthChecks \ {check}
  /\ IF HealthResponse(tabPages[check.tab]) = "ready"
     THEN statusText' = ReadyStatus /\ readyFrom' = check.tab /\ readinessTimer' = FALSE
     ELSE UNCHANGED <<statusText, readyFrom, readinessTimer>>
  /\ UNCHANGED <<tabPages, currentTabId, healthRest>>

\* Thirty seconds after its start the interval is cleared.
ReadinessExpires ==
  /\ readinessTimer
  /\ readinessTimer' = FALSE
  /\ UNCHANGED <<tabPages, currentTabId, statusText, healthChecks, readyFrom, healthRest>>

NextHealth ==
  \/ \E tabId \in HealthTabs, page \in ScriptPages \cup {NoScript} : TabShows(tabId, page)
  \/ \E tabId \in HealthTabs : ShowTab(tabId)
  \/ \E check \in healthChecks : FirstHealthAnswer(check)
  \/ \E check \in healthChecks : ProbeAnswer(check)
  \/ ReadinessTick
  \/ \E check \in healthChecks : ReadinessAnswer(check)
  \/ ReadinessExpires

SpecHealth == Init /\ [][NextHealth]_vars

\* ---------------------------------------------------- the popup's buttons
buttonRest ==
  <<now, concVars, apiVars, inFlight, readVars, cleanupVars, extractVars,
    panelVars, autoVars, healthVars, clientVars, failVars, fixVars, keyVars>>

\* The tab and the page the popup is opened on.
ButtonTab == 1
ButtonUrl == WatchUrl("dQw4w9WgXcQ")

\* updateButtonStates with an API key configured: which AI buttons are
\* enabled for the popup's tab state.
updateButtonStates(tabState) ==
  [extractPoints |-> tabState.transcript # Null,
   generateArticle |-> tabState.keyPoints # Null]

\* The popup opens: initializeCurrentTab, loadCurrentTabState and
\* updateUIForCurrentTab with its updateButtonStates.
PopupOpens ==
  /\ currentTabId = 0
  /\ currentTabId' = ButtonTab
  /\ IF InitBranch(StateOf(store, ButtonTab, now), ButtonUrl, "Rick Roll")
          = "same video, no change"
     THEN lastOp' = Plain("initializeTab", ButtonTab) /\ UNCHANGED store
     ELSE SaveStore("initializeTab", ButtonTab,
                    InitState(store, ButtonTab, ButtonUrl, "Rick Roll", now))
  /\ currentTabState' = StateOf(store', ButtonTab, now)
  /\ buttons' = updateButtonStates(currentTabState')
  /\ UNCHANGED <<flights, buttonRest>>

\* TAB_UPDATED, TAB_REMOVED or visibilitychange: the state is loaded again
\* and updateUIForCurrentTab sets the buttons from it.
PopupRefreshes ==
  /\ currentTabId # 0
  /\ currentTabState' = StateOf(store, currentTabId, now)
  /\ buttons' = updateButtonStates(currentTabState')
  /\ UNCHANGED <<store, lastOp, currentTabId, flights, buttonRest>>

\* handleExtractTranscript with a transcript found.
TranscriptExtracted ==
  /\ currentTabId # 0
  /\ currentTabState.transcript = Null
  /\ SaveStore("updateTabState", currentTabId,
       UpdatedState(store, currentTabId,
         [transcript |-> "segments", isProcessing |-> FALSE,
          processingStep |-> Null], now))
  /\ currentTabState' = [currentTabState EXCEPT !.transcript = "segments"]
  /\ buttons' = updateButtonStates(currentTabState')
  /\ UNCHANGED <<currentTabId, flights, buttonRest>>

\* A click on the enabled Extract Key Points button: handleExtractKeyPoints
\* disables the button, marks the tab as processing and calls the API.
KeyPointsClicked ==
  /\ buttons.extractPoints
  /\ flights.keyPoints < MaxFlights
  /\ currentTabId # 0
  /\ currentTabState.transcript # Null
  /\ buttons' = [buttons EXCEPT !.extractPoints = FALSE]
  /\ SaveStore("setProcessingStatus", currentTabId,
       UpdatedState(store, currentTabId,
                    ProcessingUpdates(TRUE, "extracting key points"), now))
  /\ flights' = [flights EXCEPT !.keyPoints = @ + 1]
  /\ UNCHANGED <<currentTabId, currentTabState, buttonRest>>

\* extractKeyPoints returned or threw: the rest of handleExtractKeyPoints,
\* which enables the button at its end.
KeyPointsReturned(ok) ==
  /\ flights.keyPoints > 0
  /\ currentTabId # 0
  /\ flights' = [flights EXCEPT !.keyPoints = @ - 1]
  /\ IF ok
     THEN /\ SaveStore("updateTabState", currentTabId,
               UpdatedState(store, currentTabId,
                 [keyPoints |-> "points", isProcessing |-> FALSE,
                  processingStep |-> Null], now))
          /\ currentTabState' = [currentTabState EXCEPT !.keyPoints = "points"]
     ELSE /\ SaveStore("setError", currentTabId,
               UpdatedState(store, currentTabId, ErrorUpdates("failed"), now))
          /\ UNCHANGED currentTabState
  /\ buttons' =
       [(IF ok THEN updateButtonStates(currentTabState') ELSE buttons)
          EXCEPT !.extractPoints = TRUE]
  /\ UNCHANGED <<currentTabId, buttonRest>>

\* A click on the enabled Generate Article button.
ArticleClicked ==
  /\ buttons.generateArticle
  /\ flights.article < MaxFlights
  /\ currentTabId # 0
  /\ currentTabState.keyPoints # Null
  /\ currentTabState.transcript # Null
  /\ buttons' = [buttons EXCEPT !.generateArticle = FALSE]
  /\ SaveStore("setProcessingStatus", currentTabId,
       UpdatedState(store, currentTabId,
                    ProcessingUpdates(TRUE, "generating article"), now))
  /\ flights' = [flights EXCEPT !.article = @ + 1]
  /\ UNCHANGED <<currentTabId, currentTabState, buttonRest>>

\* generateArticle returned or threw: the rest of handleGenerateArticle.
ArticleReturned(ok) ==
  /\ flights.article > 0
  /\ currentTabId # 0
  /\ flights' = [flights EXCEPT !.article = @ - 1]
  /\ IF ok
     THEN /\ SaveStore("updateTabState", currentTabId,
               UpdatedState(store, currentTabId,
                 [article |-> "text", isProcessing |-> FALSE,
                  processingStep |-> Null], now))
          /\ currentTabState' = [currentTabState EXCEPT !.article = "text"]
     ELSE /\ SaveStore("setError", currentTabId,
               UpdatedState(store, currentTabId, ErrorUpdates("failed"), now))
          /\ UNCHANGED currentTabState
  /\ buttons' = [buttons EXCEPT !.generateArticle = TRUE]
  /\ UNCHANGED <<currentTabId, buttonRest>>

NextButtons ==
  \/ PopupOpens
  \/ PopupRefreshes
  \/ TranscriptExtracted
  \/ KeyPointsClicked
  \/ \E ok \in BOOLEAN : KeyPointsReturned(ok)
  \/ ArticleClicked
  \/ \E ok \in BOOLEAN : ArticleReturned(ok)

SpecButtons == Init /\ [][NextButtons]_vars

\* ------------------------------------------------- calls of the client
clientRest ==
  <<storeVars, concVars, flowVars, readVars, cleanupVars, extractVars,
    panelVars, autoVars, healthVars, buttonVars, failVars, fixVars, keyVars>>

ClientMethods == {"extractKeyPoints", "generateArticle", "testApiKey"}

\* loadApiKey, saveApiKey or clearApiKey sets this.apiKey.
SetApiKey(apiKey) ==
  /\ client.pc # "calling"
  /\ client.apiKey # apiKey
  /\ client' = [NewClient EXCEPT !.apiKey = apiKey]
  /\ UNCHANGED <<apiVars, clientRest>>

\* extractKeyPoints, generateArticle or testApiKey is called: it throws at
\* one of its tests or calls makeRequest.
ClientCall(method, argKey, transcript, keyPoints) ==
  /\ client.pc # "calling"
  /\ apiPc \in {"idle", "done"}
  /\ LET failure == Precheck(method, client.apiKey, argKey, transcript, keyPoints)
         call == [client EXCEPT !.method = method, !.argKey = argKey,
                                !.transcript = transcript, !.keyPoints = keyPoints,
                                !.body = "none", !.value = Null, !.error = Null]
     IN  IF failure # "pass"
         THEN /\ client' = [call EXCEPT !.pc = "threw", !.error = failure]
              /\ retryCount' = 0
              /\ requests' = 0
              /\ delays' = << >>
              /\ responses' = << >>
              /\ statusAttempt' = 0
              /\ apiPc' = "idle"
              /\ result' = "none"
         ELSE /\ client' = [call EXCEPT !.pc = "calling"]
              /\ BeginRequest(isValidApiKey(RequestKey(method, client.apiKey, argKey)))
  /\ UNCHANGED <<wrappers, clientRest>>

\* makeRequest has settled and the method that called it ends.
ClientSettles(body) ==
  /\ client.pc = "calling"
  /\ apiPc = "done"
  /\ result = "ok" <=> body # "none"
  /\ LET status == IF responses = << >> THEN NetworkFailure
                   ELSE responses[Len(responses)]
         end == Settled(client.method, result, status, body)
     IN  client' = [client EXCEPT !.pc = end.pc, !.value = end.value,
                                  !.error = end.error, !.body = body]
  /\ UNCHANGED <<apiVars, clientRest>>

NextClient ==
  \/ \E apiKey \in Keys : SetApiKey(apiKey)
  \/ \E method \in ClientMethods, argKey \in Keys,
        transcript \in TranscriptArgs, keyPoints \in KeyPointsArgs :
          ClientCall(method, argKey, transcript, keyPoints)
  \/ \E body \in Bodies \cup {"none"} : ClientSettles(body)
  \/ \E status \in Responses, bodyMessage \in BodyMessages : Respond(status, bodyMessage)
  \/ TimerFires

SpecClient == Init /\ [][NextClient]_vars

\* ------------------------------------------------- calls that meet failures
failRest ==
  <<now, lastOp, concVars, apiVars, flowVars, readVars, cleanupVars, extractVars,
    panelVars, autoVars, healthVars, buttonVars, clientVars, fixVars, keyVars>>

FailTabs == {1}
FailUrls == {WatchUrlWithParams("dQw4w9WgXcQ"), WatchUrl("9bZkp7q19f0")}
FailUpdates == [transcript |-> "T5", isProcessing |-> FALSE, processingStep |-> Null]

\* Which of the reads and of the writes of a call throw.
Failures == [read1 : BOOLEAN, read2 : BOOLEAN, read3 : BOOLEAN, write : BOOLEAN]

\* The operations of TabManager the popup and the background call.
FailOps ==
  {"getTabState", "saveTabState", "updateTabState", "initializeTab",
   "setProcessingStatus", "setError", "removeTab"}

\* The call of op on tabId, with url as the page of an initializeTab.
CallOf(op, tabs, tabId, url, t, fails) ==
  IF op = "getTabState" THEN getTabStateCall(tabs, tabId, t, fails)
  ELSE IF op = "saveTabState"
  THEN saveTabStateCall(tabs, tabId, FreshState(tabId, url, "Rick Roll", t), t,
                        fails.read1, fails.write)
  ELSE IF op = "updateTabState"
  THEN updateTabStateCall(tabs, tabId, FailUpdates, t,
                          fails.read1, fails.read2, fails.write)
  ELSE IF op = "initializeTab"
  THEN initializeTabCall(tabs, tabId, url, "Rick Roll", t, fails)
  ELSE IF op = "setProcessingStatus"
  THEN updateTabStateCall(tabs, tabId, ProcessingUpdates(TRUE, "extracting transcript"),
                          t, fails.read1, fails.read2, fails.write)
  ELSE IF op = "setError"
  THEN updateTabStateCall(tabs, tabId, ErrorUpdates("failed"), t,
                          fails.read1, fails.read2, fails.write)
  ELSE removeTabCall(tabs, tabId, t, fails)

\* The reads of the storage a call of op makes at most, whether it writes and
\* whether it takes a page.
ReadsOf(op) ==
  IF op = "initializeTab" THEN 3
  ELSE IF op \in {"updateTabState", "setProcessingStatus", "setError"} THEN 2
  ELSE 1

WritesIn(op) == op # "getTabState"

TakesPage(op) == op \in {"initializeTab", "saveTabState"}

\* fails names only failures a call of op can meet, and url a page it takes.
MeetsOnly(op, url, fails) ==
  /\ fails.read2 => ReadsOf(op) >= 2
  /\ fails.read3 => ReadsOf(op) >= 3
  /\ fails.write => WritesIn(op)
  /\ TakesPage(op) <=> url # EmptyUrl

\* A call of TabManager during which the storage fails as fails says.
TabManagerCall(op, tabId, url, fails) ==
  /\ MeetsOnly(op, url, fails)
  /\ LET call == CallOf(op, store, tabId, url, now, fails)
     IN  /\ store' = call.tabs
         /\ lastCall' = [op |-> op, tab |-> tabId, url |-> url, threw |-> call.threw,
                         ok |-> call.ok, state |-> call.state, fails |-> fails]
  /\ UNCHANGED failRest

NextFail ==
  \E op \in FailOps, tabId \in FailTabs, url \in FailUrls \cup {EmptyUrl},
     fails \in Failures :
    TabManagerCall(op, tabId, url, fails)

SpecFail == Init /\ [][NextFail]_vars

\* Writes of two tabs' states during which reads of the storage fail.
LossTabs == {1, 2}
LossOps == {"saveTabState", "updateTabState", "removeTab"}

NextLoss ==
  \E op \in LossOps, tabId \in LossTabs, url \in FailUrls \cup {EmptyUrl},
     fails \in Failures :
    TabManagerCall(op, tabId, url, fails)

SpecLoss == Init /\ [][NextLoss]_vars

\* ------------------------------------- repair of a silent content script
fixRest ==
  <<now, concVars, apiVars, flowVars, readVars, cleanupVars, extractVars,
    panelVars, autoVars, healthVars, buttonVars, clientVars, failVars, keyVars>>

FixTabs == {1, 2}

\* handleExtractTranscript up to the first EXTRACT_TRANSCRIPT message.
ExtractClicked(tabId) ==
  /\ autoFix.pc \in {"idle", "done"}
  /\ SaveStore("setProcessingStatus", tabId,
       UpdatedState(store, tabId, ProcessingUpdates(TRUE, "extracting transcript"), now))
  /\ autoFix' = [NoExtraction EXCEPT !.pc = "sent", !.tab = tabId]
  /\ UNCHANGED fixRest

\* The content script answers, or sendMessage throws and the popup asks the
\* background for its status.
FirstAnswer(answer) ==
  /\ autoFix.pc = "sent"
  /\ IF answer = "silent"
     THEN /\ autoFix' = [autoFix EXCEPT !.pc = "fixing", !.silent = TRUE]
          /\ UNCHANGED <<store, lastOp>>
     ELSE /\ autoFix' = [autoFix EXCEPT !.pc = "done"]
          /\ SaveStore(ExtractionOp(answer), autoFix.tab,
                       ExtractionSaved(store, autoFix.tab, answer, now))
  /\ UNCHANGED fixRest

\* The background does not report 'active': the handler records the error.
BackgroundUnhealthy ==
  /\ autoFix.pc = "fixing"
  /\ autoFix' = [autoFix EXCEPT !.pc = "done"]
  /\ SaveStore("setError", autoFix.tab, ExtractionSaved(store, autoFix.tab, "threw", now))
  /\ UNCHANGED fixRest

\* The background answers INITIALIZE_CONTENT_SCRIPT and the handler runs to
\* its end.
InjectionReported(initSuccess, verified, retryAnswer) ==
  /\ autoFix.pc = "fixing"
  /\ LET fix == AutoFixResponse(initSuccess, verified, retryAnswer)
     IN  /\ autoFix' = [autoFix EXCEPT !.pc = "done", !.initSuccess = initSuccess,
                                       !.verified = verified,
                                       !.retryAnswer = retryAnswer,
                                       !.retried = fix.retried]
         /\ SaveStore(ExtractionOp(fix.response), autoFix.tab,
                      ExtractionSaved(store, autoFix.tab, fix.response, now))
  /\ UNCHANGED fixRest

NextFix ==
  \/ \E tabId \in FixTabs : ExtractClicked(tabId)
  \/ \E answer \in ExtractAnswers : FirstAnswer(answer)
  \/ BackgroundUnhealthy
  \/ \E initSuccess \in BOOLEAN, verified \in BOOLEAN, retryAnswer \in ExtractAnswers :
       InjectionReported(initSuccess, verified, retryAnswer)

SpecFix == Init /\ [][NextFix]_vars

\* ------------------------------------------------ the popup and the API key
keyRest ==
  <<storeVars, concVars, apiVars, flowVars, readVars, cleanupVars, extractVars,
    panelVars, autoVars, healthVars, buttonVars, clientVars, failVars, fixVars>>

KeyInputs == {NoKey, GoodKey, OtherKey, ShortKey}

\* DOMContentLoaded: new AnthropicAPI() sets apiKey to null and starts
\* loadApiKey without awaiting it; initializeExtension begins.
PopupLoaded(hasTranscript) ==
  /\ keyPanel.pc = "closed"
  /\ keyPanel' = [ClosedPopup EXCEPT !.pc = "status", !.loadPending = TRUE,
                                     !.hasTranscript = hasTranscript]
  /\ UNCHANGED <<keyStore, keyRest>>

\* The storage answers the constructor's loadApiKey.
LoadApiKeySettles(readFails) ==
  /\ keyPanel.loadPending
  /\ keyPanel' = [keyPanel EXCEPT !.loadPending = FALSE,
                                  !.apiKey = loadApiKey(keyStore, keyPanel.apiKey, readFails)]
  /\ UNCHANGED <<keyStore, keyRest>>

\* initializeExtension: await updateApiKeyStatus().
InitStatusStep ==
  /\ keyPanel.pc = "status"
  /\ keyPanel' = [InitStatusCall(keyPanel, keyStore) EXCEPT !.pc = "tab"]
  /\ UNCHANGED <<keyStore, keyRest>>

\* initializeExtension: await initializeCurrentTab(), which ends in
\* updateButtonStates for the active YouTube tab.
InitTabStep ==
  /\ keyPanel.pc = "tab"
  /\ keyPanel' = [keyPanel EXCEPT !.pc = "done",
                    !.pointsEnabled = PointsEnabled(keyPanel.hasTranscript, keyPanel.apiKey)]
  /\ UNCHANGED <<keyStore, keyRest>>

\* handleSaveApiKey with the trimmed input.
HandleSaveApiKey(input, writeFails) ==
  /\ keyPanel.pc = "done"
  /\ LET saved == saveApiKey(keyStore, keyPanel.apiKey, input, writeFails)
     IN  IF input = NoKey \/ ~isValidApiKey(input)
         THEN /\ keyPanel' = [keyPanel EXCEPT !.message = SaveKeyStatus(input, saved),
                                              !.entered = input]
              /\ UNCHANGED keyStore
         ELSE /\ keyStore' = saved.stored
              /\ keyPanel' = [keyPanel EXCEPT
                   !.message = SaveKeyStatus(input, saved), !.entered = input,
                   !.apiKey = saved.apiKey,
                   !.pointsEnabled = PointsEnabled(keyPanel.hasTranscript, saved.apiKey)]
  /\ UNCHANGED keyRest

\* The popup page is closed.
KeyPopupClosed ==
  /\ keyPanel.pc = "done"
  /\ keyPanel' = ClosedPopup
  /\ UNCHANGED <<keyStore, keyRest>>

NextKey ==
  \/ \E hasTranscript \in BOOLEAN : PopupLoaded(hasTranscript)
  \/ \E readFails \in BOOLEAN : LoadApiKeySettles(readFails)
  \/ InitStatusStep
  \/ InitTabStep
  \/ \E input \in KeyInputs, writeFails \in BOOLEAN : HandleSaveApiKey(input, writeFails)
  \/ KeyPopupClosed

SpecKey == Init /\ [][NextKey]_vars

\* ================================================================== claims
\* The mutating operations of TabManager, as lastOp names them.
TabManagerMutations ==
  {"initializeTab", "updateTabState", "setProcessingStatus", "setError", "removeTab"}

C2_DifferentVideoClears ==
  [][ /\ lastOp'.op \in {"initializeTab", "updateTabInfo"}
      /\ lastOp'.tab \in (DOMAIN store) \cap (DOMAIN store')
      /\ store[lastOp'.tab].url # EmptyUrl
      /\ extractVideoId(store[lastOp'.tab].url) # extractVideoId(store'[lastOp'.tab].url)
      => /\ store'[lastOp'.tab].transcript = Null
         /\ store'[lastOp'.tab].keyPoints = Null
         /\ store'[lastOp'.tab].article = Null ]_vars

\* C4 (as stated): after updateTabState(tabId, updates) the stored state of
\* tabId is the prior state with exactly the given fields overwritten, and
\* its lastUpdated is strictly greater than before the update.
C4_UpdateMergesAndBumps ==
  [][ \A tabId \in StoreTabs, updates \in StoreUpdates :
        UpdateTabState(tabId, updates) =>
          /\ tabId \in DOMAIN store'
          /\ \A f \in (DOMAIN store'[tabId]) \ {"lastUpdated"} :
               store'[tabId][f] =
                 IF f \in DOMAIN updates THEN updates[f]
                 ELSE StateOf(store, tabId, now)[f]
          /\ tabId \in DOMAIN store =>
               store'[tabId].lastUpdated > store[tabId].lastUpdated ]_vars

\* C6 (as stated): after any sequence of writes the serialized size of the
\* persisted tab map is within the 8 MiB budget.
C6_StoreWithinBudget == StoreJsonLen(store) <= maxStorageSize

\* What ensureStorageCapacity may make of candidate map cand: entries are
\* only removed, none when cand is within the limit, an entry only when
\* every older entry is removed too, and the entry removed last was removed
\* from a map still over the limit; the result is within the limit.
EvictionInOrder(cand, written) ==
  LET removed == (DOMAIN cand) \ (DOMAIN written)
  IN  /\ (DOMAIN written) \subseteq (DOMAIN cand)
      /\ \A k \in DOMAIN written : written[k] = cand[k]
      /\ StoreJsonLen(cand) <= maxStorageSize => removed = {}
      /\ \A e \in removed : \A x \in DOMAIN cand :
           cand[x].lastUpdated < cand[e].lastUpdated => x \in removed
      /\ removed # {} =>
           \E e \in removed :
             /\ \A x \in removed : cand[x].lastUpdated <= cand[e].lastUpdated
             /\ StoreJsonLen(With(written, e, cand[e])) > maxStorageSize
      /\ StoreJsonLen(written) <= maxStorageSize

\* C5: when a save finds the tab map over maxStorageSize, entries are removed
\* in ascending lastUpdated order and only until the map is within the
\* limit; nothing is removed from a map within the limit.
C5_EvictsOldestFirst ==
  [][ \A tabId \in CapTabs, updates \in CapUpdates :
        UpdateTabState(tabId, updates) =>
          EvictionInOrder(
            SaveCandidate(store, tabId, UpdatedState(store, tabId, updates, now), now),
            store') ]_vars

\* C5 witness: a save evicted two entries and kept one.
C5_Witness ==
  /\ lastOp.op = "updateTabState"
  /\ Cardinality(lastOp.evicted) = 2
  /\ DOMAIN store # {}

HasContent(state) ==
  state.transcript # Null \/ state.keyPoints # Null \/ state.article # Null

\* C3: initializeTab on a tab that holds content, with any URL shape of the
\* stored video and any title, keeps transcript, keyPoints and article and
\* stores the canonical watch URL.
C3_SameVideoVariantPreserves ==
  [][ \A tabId \in NavTabs, id \in VideoIds, title \in NavTitles :
        \A url \in Variants(id) :
          ( /\ tabId \in DOMAIN store
            /\ store[tabId].url = WatchUrl(id)
            /\ HasContent(store[tabId])
            /\ InitializeTab(tabId, url, title) )
          => /\ tabId \in DOMAIN store'
             /\ store'[tabId].transcript = store[tabId].transcript
             /\ store'[tabId].keyPoints = store[tabId].keyPoints
             /\ store'[tabId].article = store[tabId].article
             /\ store'[tabId].url = WatchUrl(id) ]_vars

\* C7: when the popup's save for one tab and the background's updateTabInfo
\* for another tab have both completed, the stored map holds both changes,
\* whatever the order of their storage reads and writes.
C7_DistinctTabsIndependent ==
  (popup.pc = "done" /\ bg.pc = "done" /\ popup.tab # bg.tab) =>
    /\ popup.tab \in DOMAIN store
    /\ \A f \in DOMAIN popup.updates : store[popup.tab][f] = popup.updates[f]
    /\ bg.tab \in DOMAIN store
    /\ store[bg.tab].url = bg.url

Last(seq) == seq[Len(seq)]

\* C8: a 529 response followed by a 200 response ends the call with one
\* wait, two requests and success; a 401 response ends it with no wait, one
\* request and the authentication error.
C8_RetryOnceThenSucceed ==
  /\ responses = <<529, 200>> =>
       apiPc = "done" /\ Len(delays) = 1 /\ requests = 2 /\ result = "ok"
  /\ responses = <<401>> =>
       apiPc = "done" /\ delays = << >> /\ requests = 1 /\ result = AuthMessage

\* C8 witness: the call that saw 529 and then 200 has succeeded.
C8_Witness == responses = <<529, 200>> /\ result = "ok"

C9_AtMostFourRequests ==
  /\ requests <= maxRetries + 1
  /\ requests = maxRetries + 1 => apiPc = "done"
  /\ (requests = maxRetries + 1 /\ Last(responses) = 529) => result = OverloadedMessage
  /\ (requests = maxRetries + 1 /\ Last(responses) = 429) => result = RateLimitMessage

\* C9: with or without the popup's wrappers, one client call makes at most
\* maxRetries + 1 requests, the last of which ends it (with the overloaded
\* or rate-limit error when it is answered by 529 or 429), and every call
\* that has started ends.
C9_BoundedRetries ==
  /\ []C9_AtMostFourRequests
  /\ (apiPc \in {"fetch", "wait"}) ~> (apiPc = "done")

\* C9 witness: through a wrapper, a mix of 429 and 529 responses used up the
\* retries and the fourth response ended the call with the rate-limit error.
C9_Witness ==
  /\ wrappers > 0
  /\ requests = maxRetries + 1
  /\ \E i \in 1..Len(responses) : responses[i] = 529
  /\ Last(responses) = 429
  /\ result = RateLimitMessage

\* C10: a response other than 2xx, 429 and 529 ends the call with an error
\* after that one request, and so does a rejected fetch, on any attempt,
\* with the network error, which no HTTP status produces.
C10_TerminalErrors ==
  /\ \A i \in 1..Len(responses) :
       responses[i] \notin {429, 529} =>
         /\ i = Len(responses)
         /\ apiPc = "done"
         /\ IsOk(responses[i]) <=> result = "ok"
         /\ responses[i] = NetworkFailure <=> result = NetworkErrorMessage
  /\ apiPc = "wait" => Last(responses) \in {429, 529}

\* C10 witness: the fetch of a retry attempt was rejected.
C10_Witness ==
  /\ Len(responses) > 1
  /\ Last(responses) = NetworkFailure
  /\ result = NetworkErrorMessage

\* C11: no stored tab state has isProcessing true together with an error.
C11_ProcessingExcludesError ==
  \A tabId \in DOMAIN store :
    ~(store[tabId].isProcessing /\ store[tabId].error # Null)

\* C11 witness: setError stored an error on a tab and cleared its processing
\* status while another handler of the popup still awaits its result.
C11_Witness ==
  /\ lastOp.op = "setError"
  /\ lastOp.tab \in DOMAIN store
  /\ store[lastOp.tab].error # Null
  /\ ~store[lastOp.tab].isProcessing
  /\ store[lastOp.tab].processingStep = Null
  /\ inFlight # NoFlight

\* C12: in every stored tab state an article comes with key points and key
\* points come with a transcript.
C12_DerivedNeedsSource ==
  \A tabId \in DOMAIN store :
    /\ store[tabId].article # Null => store[tabId].keyPoints # Null
    /\ store[tabId].keyPoints # Null => store[tabId].transcript # Null

IsEmptyStateOf(state, tabId) ==
  /\ state.tabId = tabId
  /\ state.transcript = Null
  /\ state.keyPoints = Null
  /\ state.article = Null
  /\ state.error = Null
  /\ state.isProcessing = FALSE

\* C13: getTabState returns the stored entry when the read succeeds and the
\* tab has one, and otherwise (no entry, entry removed or evicted, read
\* failed) an empty state for the requested tab.
C13_GetAlwaysReturnsState ==
  [][ \A tabId \in CapTabs, readFails \in BOOLEAN :
        GetTabState(tabId, readFails) =>
          IF ~readFails /\ tabId \in DOMAIN store
          THEN returned'.state = store[tabId]
          ELSE IsEmptyStateOf(returned'.state, tabId) ]_vars

\* C13 witness: getTabState was called for a tab whose entry the last save
\* had evicted, and returned an empty state.
C13_Witness ==
  /\ lastOp.op = "updateTabState"
  /\ returned.tab \in lastOp.evicted
  /\ returned.tab \notin DOMAIN store
  /\ ~returned.failed
  /\ IsEmptyStateOf(returned.state, returned.tab)

DayMs == 24 * HourMs

\* C14 as stated: cleanupOldTabs removes exactly the entries of closed tabs
\* older than 24 hours and the entries older than 7 days.
C14_CleanupWindows ==
  [][ CleanupOldTabs =>
        /\ DOMAIN store' =
             { tabId \in DOMAIN store :
                 ~ \/ tabId \notin openTabs /\ now - store[tabId].lastUpdated > DayMs
                   \/ now - store[tabId].lastUpdated > 7 * DayMs }
        /\ \A tabId \in DOMAIN store' : store'[tabId] = store[tabId] ]_vars

\* C14 amended: cleanupOldTabs removes exactly the entries of closed tabs
\* older than 24 hours and the entries older than 8 days (the 24 hours and
\* 7 days more), and leaves the other entries as they are.
C14_CleanupWindowsEightDays ==
  [][ CleanupOldTabs =>
        /\ DOMAIN store' =
             { tabId \in DOMAIN store :
                 ~ \/ tabId \notin openTabs /\ now - store[tabId].lastUpdated > DayMs
                   \/ now - store[tabId].lastUpdated > 8 * DayMs }
        /\ \A tabId \in DOMAIN store' : store'[tabId] = store[tabId] ]_vars

\* C14 witness: a cleanup removed an entry and kept the entry of an open tab
\* that is more than 7 days old.
C14_Witness ==
  /\ lastOp.op = "cleanupOldTabs"
  /\ lastOp.evicted # {}
  /\ \E tabId \in DOMAIN store :
       tabId \in openTabs /\ now - store[tabId].lastUpdated > 7 * DayMs

\* C15: the entry of a closed tab that is older than 24 hours is eventually
\* removed from storage.
C15_StaleEntryEventuallyRemoved ==
  \A tabId \in CleanupTabs :
    (/\ tabId \in DOMAIN store
     /\ tabId \notin openTabs
     /\ now - store[tabId].lastUpdated > DayMs) ~> (tabId \notin DOMAIN store)

\* The elements the structured strategy works on: those of the open panel,
\* or those the panel shows after the click on the transcript button.
StructuredItems(page) ==
  IF page.panel # << >> THEN page.panel
  ELSE IF page.trigger THEN page.loaded
  ELSE << >>

\* The segments of the first strategy, in the order structured, caption,
\* generic, that accepts at least one element.
FirstProductive(page) ==
  IF extractTranscriptSync(StructuredItems(page)) # << >>
  THEN extractTranscriptSync(StructuredItems(page))
  ELSE IF CaptionsFrom(page.captions, 0) # << >>
  THEN CaptionsFrom(page.captions, 0)
  ELSE GeneralFrom(page.general, 0)

\* C16: on a YouTube page whose queries do not throw, extractTranscript
\* returns the segments of the first strategy (structured, then caption, then
\* generic) that accepts at least one element; a strategy whose elements are
\* all rejected hands over to the next one.
C16_FirstProductiveStrategyWins ==
  (extraction.state = "done" /\ dom.onYouTube /\ dom.throwsAt = "none")
    => /\ extraction.outcome.kind = "returned"
       /\ extraction.outcome.segments = FirstProductive(dom)

\* The page as the strategies other than the throwing one see it.
WithoutThrowing(page) ==
  [page EXCEPT !.throwsAt = "none",
               !.panel = IF page.throwsAt = "panel" THEN << >> ELSE @,
               !.loaded = IF page.throwsAt = "panel" THEN << >> ELSE @,
               !.captions = IF page.throwsAt = "captions" THEN << >> ELSE @,
               !.general = IF page.throwsAt = "general" THEN << >> ELSE @]

\* C17: when the DOM query of one strategy throws, extractTranscript does
\* not raise: it returns what the remaining strategies find.
C17_QueryExceptionIsContained ==
  (extraction.state = "done" /\ dom.onYouTube /\ dom.throwsAt # "none")
    => /\ extraction.outcome.kind = "returned"
       /\ extraction.outcome.segments = FirstProductive(WithoutThrowing(dom))

\* A YouTube page on which no strategy finds an element, before or after a
\* click on the transcript button, and no query throws.
NothingMatches(page) ==
  /\ page.onYouTube
  /\ page.throwsAt = "none"
  /\ page.panel = << >> /\ page.loaded = << >>
  /\ page.captions = << >> /\ page.general = << >>

\* C18: on a page without matching elements, with or without the transcript
\* button, extractTranscript returns the empty sequence without raising, and
\* the EXTRACT_TRANSCRIPT message is answered with an empty result (a null
\* transcript) and no error.
C18_NoMatchGivesEmptyAnswer ==
  (extraction.state = "done" /\ NothingMatches(dom))
    => /\ extraction.outcome.kind = "returned"
       /\ extraction.outcome.segments = << >>
       /\ extraction.response.sent
       /\ extraction.response.transcript.segments = << >>
       /\ extraction.response.error = Null

\* The message was answered on a page that has the button but no elements.
C18_Witness ==
  /\ extraction.state = "done"
  /\ NothingMatches(dom)
  /\ dom.trigger
  /\ extraction.response.sent

\* The trimmed texts of the elements the winning strategy worked on; an
\* element of the panel without text child counts as empty.
SourceTexts(page, method) ==
  IF method = "panel"
  THEN [k \in 1..Len(StructuredItems(page)) |->
          IF StructuredItems(page)[k].text = NoChild THEN << >>
          ELSE Trim(StructuredItems(page)[k].text)]
  ELSE IF method = "captions"
  THEN [k \in 1..Len(page.captions) |-> Trim(page.captions[k])]
  ELSE IF method = "general"
  THEN [k \in 1..Len(page.general) |-> Trim(page.general[k])]
  ELSE << >>

LongEnough(text, least) == TextLen(text) >= least

\* The texts of the returned segments are exactly the source texts of at
\* least 3 characters (structured, caption) or leastGeneral characters
\* (generic), in their order.
SegmentsPassThreshold(leastGeneral) ==
  (extraction.state = "done" /\ extraction.outcome.kind = "returned")
    => LET outcome == extraction.outcome
           least == IF outcome.method = "general" THEN leastGeneral ELSE 3
           texts == SourceTexts(dom, outcome.method)
           kept == SelectSeq(texts, LAMBDA text : LongEnough(text, least))
       IN  /\ Len(outcome.segments) = Len(kept)
           /\ \A k \in 1..Len(kept) : outcome.segments[k].text = kept[k]

\* C19: every returned segment has trimmed text of at least 3 characters
\* (structured and caption strategies) or at least 10 characters (generic
\* strategy); no element below its threshold appears and none that meets it
\* is dropped.
C19_SegmentsPassThreshold == SegmentsPassThreshold(10)

\* C19, amended: as above, with the generic strategy accepting only texts of
\* more than 10 characters.
C19_GenericNeedsMoreThanTen == SegmentsPassThreshold(11)

\* The generic strategy won on a page with a text of ten characters, which
\* it rejected, and a longer one, which it accepted.
C19_Witness ==
  /\ extraction.state = "done"
  /\ extraction.outcome.method = "general"
  /\ Len(extraction.outcome.segments) = 1
  /\ \E k \in 1..Len(dom.general) : TextLen(Trim(dom.general[k])) = 10

\* The positions of the panel elements that have a text of at least 3
\* characters after trimming.
WellFormed(items) ==
  { k \in 1..Len(items) :
      items[k].text # NoChild /\ TextLen(Trim(items[k].text)) >= 3 }

\* The position of the j-th well-formed element.
NthWellFormed(items, j) ==
  CHOOSE k \in WellFormed(items) :
    Cardinality({ h \in WellFormed(items) : h < k }) = j - 1

\* C20: the structured strategy returns one segment per accepted element, in
\* document order, each with the trimmed timestamp and text of its element;
\* n well-formed elements give n segments.
C20_StructuredKeepsDocumentOrder ==
  (extraction.state = "done" /\ extraction.outcome.method = "panel")
    => LET items == StructuredItems(dom)
           segments == extraction.outcome.segments
       IN  /\ Len(segments) = Cardinality(WellFormed(items))
           /\ \A j \in 1..Len(segments) :
                LET item == items[NthWellFormed(items, j)]
                IN  /\ segments[j].text = Trim(item.text)
                    /\ item.time # NoChild
                         => segments[j].timestamp = Trim(item.time)

\* Three well-formed elements with different timestamps gave three segments.
C20_Witness ==
  /\ extraction.state = "done"
  /\ extraction.outcome.method = "panel"
  /\ Len(dom.panel) = 3
  /\ Len(extraction.outcome.segments) = 3
  /\ \A k \in 1..3 : dom.panel[k].time # NoChild
  /\ \A k, h \in 1..3 : k # h => dom.panel[k].time # dom.panel[h].time

\* What holds of the wait at every instant: the promise is resolved at most
\* once and no timer is left once it is; elements are its value only when a
\* poll found them, null only when a poll found none more than maxWaitTime
\* after the start, and extraction goes on with the fallback after null.
PanelWaitSettled ==
  /\ panelWait.resolutions <= 1
  /\ panelWait.pc = "resolved" => panelWait.resolutions = 1 /\ panelWait.timers = 0
  /\ panelWait.pc = "polling" => panelWait.resolutions = 0 /\ panelWait.timers = 1
  /\ panelWait.value = "elements"
       => panelWait.found /\ panelWait.then = "extractTranscriptSync"
  /\ panelWait.value = "null"
       => /\ ~panelWait.found
          /\ panelWait.resolvedAt - panelWait.startTime > maxWaitTime
          /\ panelWait.then = "extractTranscriptFallback"

\* A poll that finds the elements resolves with them; a poll that finds none
\* resolves with null exactly when more than maxWaitTime has gone by.
PollDecides ==
  panelWait'.polls > panelWait.polls
    => /\ panelShown => panelWait'.value = "elements"
       /\ ~panelShown
            => (panelWait'.value = "null"
                  <=> clock - panelWait'.startTime > maxWaitTime)

\* C21: waitForTranscriptPanel resolves exactly once, with the elements at
\* the first poll that finds any and otherwise with null once more than 5000
\* ms have gone by; no poll is scheduled after it resolved, and after a
\* timeout extraction goes on with the fallback strategies.
C21_PanelWaitResolvesOnce ==
  /\ []PanelWaitSettled
  /\ [][PollDecides]_vars
  /\ (panelWait.pc = "polling") ~> (panelWait.pc = "resolved")

\* The wait timed out and the fallback strategies are next.
C21_Witness ==
  /\ panelWait.pc = "resolved"
  /\ panelWait.value = "null"
  /\ panelWait.then = "extractTranscriptFallback"

\* C22: automatic extraction waits for readiness at most ten seconds, and
\* when the page is still not ready at the timeout the extraction is
\* attempted all the same.
C22_AttemptsAfterReadyTimeout ==
  autoExtract.pc = "done"
    => /\ autoExtract.resolvedAt - autoExtract.readyStart
            <= readyTimeout + MaxLate * ClockStep
       /\ autoExtract.attempted

\* C23: the status line reads 'Ready to extract transcript' only on the
\* strength of a 'ready' answer of the currently selected tab's content
\* script to a HEALTH_CHECK.
C23_ReadyOnlyAfterReadyAnswer ==
  statusText = ReadyStatus => readyFrom = currentTabId

\* C24: for one tab at most one key-points or article request is in flight
\* at any time, also after a refresh has set the buttons again.
C24_OneRequestInFlight ==
  flights.keyPoints + flights.article <= 1

\* A call of the client's method has ended, by return or by throw.
Ended(method) == client.method = method /\ client.pc \in {"returned", "threw"}

\* extractKeyPoints was called without transcript or with one of zero
\* segments.
EmptyTranscriptCall ==
  /\ Ended("extractKeyPoints")
  /\ ~client.transcript.present \/ client.transcript.segments = 0

\* C25: extractKeyPoints without transcript, or with a transcript of zero
\* segments, fails with the input error and makes no HTTP request.
C25_EmptyTranscriptIsInputError ==
  EmptyTranscriptCall
    => /\ client.pc = "threw"
       /\ client.error = TranscriptInputError
       /\ requests = 0

\* C25, amended: with a key loaded the call fails with the input error,
\* without a key with the configuration error, and in both cases no HTTP
\* request is made.
C25_EmptyTranscriptFailsBeforeRequest ==
  EmptyTranscriptCall
    => /\ client.pc = "threw"
       /\ client.error = IF client.apiKey # NoKey THEN TranscriptInputError
                                                 ELSE ConfigurationError
       /\ requests = 0

\* With a key loaded, a transcript of zero segments was refused.
C25_Witness ==
  /\ Ended("extractKeyPoints")
  /\ client.apiKey = GoodKey
  /\ client.transcript = NoSegments
  /\ client.error = TranscriptInputError

C27_StorageFailureIsContained ==
  /\ ~lastCall.threw
  /\ lastCall.op = "initializeTab"
       => /\ lastCall.state.tabId = lastCall.tab
          /\ isSameYouTubeVideo(lastCall.state.url, lastCall.url)
          /\ DOMAIN lastCall.state = DOMAIN createEmptyTabState(0, 0)

\* initializeTab returned a state although its reads and its write failed.
C27_Witness ==
  /\ lastCall.op = "initializeTab"
  /\ lastCall.fails.read1 /\ lastCall.fails.write
  /\ ~lastCall.ok
  /\ lastCall.state.tabId = lastCall.tab

\* The video a URL names: the id of its v parameter or of its path.
VideoNamedBy(url) ==
  IF \E id \in VideoIds : url \in Variants(id)
  THEN CHOOSE id \in VideoIds : url \in Variants(id)
  ELSE Null

\* C28: the URL stored for a tab is the same video as another URL exactly
\* when both name the same 11-character id, whatever the shape of the URLs
\* and the number and order of their query parameters; the stored URL is
\* the canonical watch URL of its video, and normalizing it again changes
\* nothing.
C28_SameVideoWhateverShape ==
  \A tabId \in DOMAIN store :
    LET stored == store[tabId].url
    IN  VideoNamedBy(stored) # Null
          => /\ stored = WatchUrl(VideoNamedBy(stored))
             /\ normalizeYouTubeUrl(stored) = stored
             /\ \A url \in NavUrls :
                  isSameYouTubeVideo(stored, url)
                    <=> VideoNamedBy(url) = VideoNamedBy(stored)

\* The key testApiKey tested, and the status of the last response it got.
TestedKey == RequestKey("testApiKey", client.apiKey, client.argKey)

LastStatus == IF responses = << >> THEN NetworkFailure ELSE responses[Len(responses)]

\* The messages that report each kind of failure, of testApiKey and of
\* makeRequest.
AuthenticationFailures == {TestAuthError, AuthMessage}
PermissionFailures == {TestPermissionError, DeniedMessage}
RateLimitFailures == {TestRateLimitError, RateLimitMessage}

\* The bodies response.json() parses.
ParseableBodies == Bodies \ {"not json"}

\* What C29 says of a key that fails the syntactic test and of the statuses
\* 401, 403 and 429.
TestApiKeyFailures ==
  /\ ~isValidApiKey(TestedKey)
       => /\ client.pc = "threw"
          /\ client.error = KeyFormatError
          /\ requests = 0
  /\ isValidApiKey(TestedKey)
       => /\ requests >= 1
          /\ LastStatus = 401
               => client.pc = "threw" /\ client.error \in AuthenticationFailures
          /\ LastStatus = 403
               => client.pc = "threw" /\ client.error \in PermissionFailures
          /\ LastStatus = 429
               => client.pc = "threw" /\ client.error \in RateLimitFailures

\* C29: testApiKey rejects a key that fails the syntactic test before any
\* request; otherwise it makes a request and reports 401 as an
\* authentication failure, 403 as a permission failure and 429 as a
\* rate-limit failure, and returns true for every successful response whose
\* body parses.
C29_AnyParseableResponsePasses ==
  Ended("testApiKey")
    => /\ TestApiKeyFailures
       /\ (IsOk(LastStatus) /\ client.body \in ParseableBodies)
            => client.pc = "returned" /\ client.value = "true"

\* C29, amended: a successful response passes only when its first content
\* block has a text; any other parseable body is an unexpected format.
C29_ResponseWithTextPasses ==
  Ended("testApiKey")
    => /\ TestApiKeyFailures
       /\ (IsOk(LastStatus) /\ client.body = "text")
            => client.pc = "returned" /\ client.value = "true"
       /\ (IsOk(LastStatus) /\ client.body \in ParseableBodies \ {"text"})
            => client.pc = "threw" /\ client.error = UnexpectedFormatError

\* testApiKey got a successful response without content and threw.
C29_Witness ==
  /\ Ended("testApiKey")
  /\ isValidApiKey(TestedKey)
  /\ LastStatus = 200
  /\ client.body = "no content"
  /\ client.error = UnexpectedFormatError

\* The waits before retry 0, 1 and 2, in milliseconds.
OverloadWaits == <<2000, 4000, 8000>>
RateLimitWaits == <<4000, 8000, 16000>>

\* Every wait so far follows a 529 or a 429 response and has the length of
\* its retry, and no more requests were made than waits were begun.
WaitsDouble ==
  /\ Len(delays) <= maxRetries
  /\ \A k \in 1..Len(delays) :
       /\ responses[k] \in {529, 429}
       /\ responses[k] = 529 => delays[k] = OverloadWaits[k]
       /\ responses[k] = 429 => delays[k] = RateLimitWaits[k]
       /\ delays[k] = baseDelay * Pow2(k - 1) * (IF responses[k] = 429 THEN 2 ELSE 1)
  /\ requests <= Len(delays) + 1
  /\ apiPc = "wait" => Len(delays) = requests

\* A request is made only when no wait is pending.
RequestAfterWait ==
  /\ apiPc = "wait" => requests' = requests
  /\ requests' = requests + 1 => apiPc = "fetch" /\ Len(delays) = requests

\* C30: the wait before retry k (k = 0, 1, 2) is baseDelay * 2^k after a 529
\* response (2000, 4000, 8000 ms) and twice that after a 429 response (4000,
\* 8000, 16000 ms), and no retry is started before its wait is over.
C30_BackoffDoubles == []WaitsDouble /\ [][RequestAfterWait]_vars

\* After 529, 429 and 529 the call waited 2000, 8000 and 8000 ms and made
\* its fourth request.
C30_Witness ==
  /\ delays = <<2000, 8000, 8000>>
  /\ requests = maxRetries + 1

\* C31: the transcript, the key points and the article a handler obtained
\* are written into the state of the tab the handler was started on,
\* whatever tab the popup shows when the result arrives.
C31_ResultStoredUnderItsTab ==
  [][ /\ ExtractTranscriptDone("segments") => lastOp'.tab = inFlight.transcript
      /\ ExtractKeyPointsDone(TRUE) => lastOp'.tab = inFlight.keyPoints
      /\ GenerateArticleDone(TRUE) => lastOp'.tab = inFlight.article ]_vars

\* No read and no write fails.
NoFailure == [read1 |-> FALSE, read2 |-> FALSE, read3 |-> FALSE, write |-> FALSE]

\* The entries and the fields of tabs that are the same in after as in before.
KeptOf(before, after) ==
  { <<tabId, field>> \in (DOMAIN before \cap DOMAIN after) \X {"url", "title", "transcript", "keyPoints", "article"} :
      after[tabId][field] = before[tabId][field] }

\* C32: a saveTabState or updateTabState during which a read of the tab map
\* fails leaves in the store every entry of another tab, and every field of
\* the written tab, that the same call leaves there when no read fails.
C32_FailedReadKeepsStoredData ==
  [][ \A op \in {"saveTabState", "updateTabState"}, tabId \in LossTabs,
         url \in FailUrls \cup {EmptyUrl}, fails \in Failures :
        (TabManagerCall(op, tabId, url, fails) /\ ~fails.write)
          => LET clean == CallOf(op, store, tabId, url, now, NoFailure).tabs
             IN  /\ DOMAIN clean \subseteq DOMAIN store'
                 /\ KeptOf(store, clean) \subseteq KeptOf(store, store') ]_vars

\* C33: when the content script did not answer, the background reported a
\* successful injection and the script then answers with segments, the
\* popup has retried the extraction and the tab's state holds the
\* transcript, is not processing and has no error.
C33_RetryStoresTranscript ==
  ( /\ autoFix.pc = "done"
    /\ autoFix.silent
    /\ autoFix.initSuccess
    /\ autoFix.verified
    /\ autoFix.retryAnswer = "segments" )
    => /\ autoFix.retried
       /\ autoFix.tab \in DOMAIN store
       /\ store[autoFix.tab].transcript = "segments"
       /\ ~store[autoFix.tab].isProcessing
       /\ store[autoFix.tab].error = Null

\* C34: initializeTab on an entry that was stored without a url keeps the
\* entry's transcript, keyPoints and article.
C34_UrlLessEntryKeepsContent ==
  [][ \A tabId \in NavTabs, url \in NavUrls, title \in NavTitles :
        ( /\ tabId \in DOMAIN store
          /\ store[tabId].url = EmptyUrl
          /\ HasContent(store[tabId])
          /\ InitializeTab(tabId, url, title) )
        => /\ tabId \in DOMAIN store'
           /\ store'[tabId].transcript = store[tabId].transcript
           /\ store'[tabId].keyPoints = store[tabId].keyPoints
           /\ store'[tabId].article = store[tabId].article ]_vars

\* C35: after a saveTabState that returned true (here the one updateTabState
\* makes, whose storage calls succeed) the store holds the entry of the saved
\* tab with the saved state and the time of the save as lastUpdated.
C35_SavedEntryIsStored ==
  [][ \A tabId \in CapTabs, updates \in CapUpdates :
        UpdateTabState(tabId, updates) =>
          /\ tabId \in DOMAIN store'
          /\ store'[tabId] =
               Merge(UpdatedState(store, tabId, updates, now),
                     [tabId |-> tabId, lastUpdated |-> now]) ]_vars

\* C36: a stored tab state is in the processing state only while a handler
\* of the popup that was started on that tab still awaits its result.
C36_ProcessingOnlyDuringFlow ==
  \A tabId \in DOMAIN store :
    store[tabId].isProcessing
      => \E handler \in DOMAIN inFlight : inFlight[handler] = tabId

\* C37: lastUpdated of a tab's stored entry never decreases from one write
\* to the next, however the reads and writes of two flows interleave.
C37_LastUpdatedNeverDecreases ==
  [][ \A tabId \in DOMAIN store \cap DOMAIN store' :
        store'[tabId].lastUpdated >= store[tabId].lastUpdated ]_vars

\* C38: handleSaveApiKey shows 'API key saved successfully' only when the
\* key it was given is the stored key afterwards, and a save whose write
\* fails leaves the client's key as it was.
C38_SavedOnlyWhenPersisted ==
  [][ \A input \in KeyInputs, writeFails \in BOOLEAN :
        HandleSaveApiKey(input, writeFails)
          => /\ keyPanel'.message = SavedStatus => keyStore' = input
             /\ writeFails => keyPanel'.apiKey = keyPanel.apiKey ]_vars

\* C40: when initializeExtension completes, the client's apiKey is the stored
\* key and the key-points button is enabled exactly when the tab has a
\* transcript and a key is stored.
C40_KeyLoadedBeforeTabContext ==
  [][ InitTabStep
        => /\ keyPanel'.apiKey = keyStore
           /\ keyPanel'.pointsEnabled
                <=> PointsEnabled(keyPanel.hasTranscript, keyStore) ]_vars

\* C39: waitForYouTubeDOMReady resolves once, and a readiness poll that runs
\* after the promise is resolved schedules no further poll.
C39_NoPollAfterResolve ==
  [][ (autoExtract.isDOMReady # "none" /\ ReadyPollFires)
        => autoExtract'.checkTimers = 0 ]_vars

====
